---- MODULE Spec2Model ----
(***************************************************************************)
(* Verification model of the Rescue cipher / Rescue-Prime hash library.    *)
(*                                                                         *)
(* The library works over F_p with p = 2^255 - 19, on 256-bit words made   *)
(* of 32 bytes of 8 bits.  TLC has 32-bit integers, so the model keeps the *)
(* shape of the arithmetic and scales the widths: a byte has ByteBits = 2  *)
(* bits, a word has FP_BYTES = 4 bytes (8 bits) and p = 2^7 - 19 = 109.    *)
(* The scaled prime keeps the facts the code relies on: p is prime,        *)
(* 2^WordBits = 38 (mod p), 2p + 38 = 2^WordBits, a nonce (half a word)    *)
(* is below p, a secret (a full word) may exceed p, and the smallest prime *)
(* not dividing p - 1 is 5.  Sizes counted in elements (block size, rate,  *)
(* capacity, digest length, security levels) keep their source values.     *)
(***************************************************************************)
EXTENDS Integers, Sequences, FiniteSets, TLC

\* ------------------------------------------------------------------------
\* Word sizes and the field prime
\* ------------------------------------------------------------------------
ByteBits == 2
FP_BYTES == 4
ByteBase == 2 ^ ByteBits
WordBits == FP_BYTES * ByteBits
WordMod == 2 ^ WordBits
FP_BITS == WordBits - 1
P == 2 ^ FP_BITS - 19

RESCUE_CIPHER_BLOCK_SIZE == 5
RESCUE_CIPHER_NONCE_SIZE == FP_BYTES \div 2
RESCUE_CIPHER_SECRET_SIZE == FP_BYTES
RESCUE_HASH_RATE == 7
RESCUE_HASH_CAPACITY == 5
RESCUE_HASH_STATE_SIZE == RESCUE_HASH_RATE + RESCUE_HASH_CAPACITY
RESCUE_HASH_DIGEST_LENGTH == 5
SECURITY_LEVEL_BLOCK_CIPHER == 128
SECURITY_LEVEL_HASH_FUNCTION == 256

\* std::vector: a sequence whose elements are computed once, when it is built
Vec(f) == f \o <<>>

\* TLC hands an operator its arguments unevaluated.  A loop that tests
\* Evaluated(acc) computes its accumulator at every step, as the code does,
\* instead of building the chain of all pending steps.  The long loops take
\* the range lo .. hi - 1 of their iterations and run its two halves in
\* order, which keeps the depth of evaluation logarithmic in the length.
Evaluated(x) == x = x

Min(a, b) == IF a < b THEN a ELSE b
Max(a, b) == IF a > b THEN a ELSE b
CeilDiv(a, b) == (a + b - 1) \div b

\* ------------------------------------------------------------------------
\* Fp: field elements, always kept in [0, P)
\* ------------------------------------------------------------------------
FpReduce(v) == v % P
FpZero == FpReduce(0)
FpOne == FpReduce(1)

FpAdd(a, b) ==
  LET result == a + b
  IN FpReduce(IF result >= P THEN result - P ELSE result)

FpSub(a, b) ==
  LET result == a - b
  IN FpReduce(IF result < 0 THEN result + P ELSE result)

FpMul(a, b) == FpReduce((a * b) % P)

FpNeg(a) == IF a = 0 THEN a ELSE FpReduce(P - a)

\* mpz_invert: the inverse of a nonzero element (callers test is_zero first)
FpInv(a) == CHOOSE x \in 1..(P - 1) : (a * x) % P = 1

RECURSIVE PowMod(_, _, _)
PowMod(b, e, acc) ==
  IF e = 0 THEN acc
  ELSE PowMod((b * b) % P, e \div 2, IF e % 2 = 1 THEN (acc * b) % P ELSE acc)

FpPow(a, exp) == FpReduce(PowMod(a, exp, 1))

\* ------------------------------------------------------------------------
\* Little-endian (de)serialisation
\* ------------------------------------------------------------------------
RECURSIVE LeValue(_, _)
LeValue(bytes, i) ==
  IF i = 0 THEN 0 ELSE LeValue(bytes, i - 1) + bytes[i] * ByteBase ^ (i - 1)

\* faulty variant: only the first byte is read
deserialize_le_first_byte(bytes) == LeValue(bytes, Min(Len(bytes), 1))

\* uint256::from_bytes: at most BYTES bytes are read, the rest is ignored
deserialize_le(bytes) == LeValue(bytes, Min(Len(bytes), FP_BYTES))

\* Fp(span<const uint8_t>): every byte is read, then the value is reduced
FpFromBytes(bytes) == FpReduce(LeValue(bytes, Len(bytes)))

\* Fp::to_bytes: BYTES little-endian bytes of the value
FpToBytes(v) == Vec([i \in 1..FP_BYTES |-> (v \div ByteBase ^ (i - 1)) % ByteBase])

\* ------------------------------------------------------------------------
\* Constant-time layer: two's-complement bit vectors and a ripple adder
\* ------------------------------------------------------------------------
get_bit(x, bit_pos) == ((x \div 2 ^ bit_pos) % 2) = 1

to_bin_le(x, bin_size) == Vec([i \in 1..bin_size |-> get_bit(x, i - 1)])

RECURSIVE BinSum(_, _)
BinSum(x_bin, n) ==
  IF n = 0 THEN 0
  ELSE BinSum(x_bin, n - 1) + (IF x_bin[n] THEN 2 ^ (n - 1) ELSE 0)

from_bin_le(x_bin) ==
  IF Len(x_bin) = 0 THEN 0
  ELSE BinSum(x_bin, Len(x_bin) - 1)
       - (IF x_bin[Len(x_bin)] THEN 2 ^ (Len(x_bin) - 1) ELSE 0)

sign_bit(x, bin_size) == get_bit(x, bin_size)

RECURSIVE AdderLoop(_, _, _, _, _)
AdderLoop(x_bin, y_bin, carry, bin_size, result) ==
  IF Len(result) = bin_size THEN result
  ELSE LET i == Len(result) + 1
           y_xor_carry == (y_bin[i] # carry)
           new_carry == (y_bin[i] # (y_xor_carry /\ (x_bin[i] # y_bin[i])))
       IN AdderLoop(x_bin, y_bin, new_carry, bin_size,
                    Append(result, x_bin[i] # y_xor_carry))

adder(x_bin, y_bin, carry_in, bin_size) ==
  AdderLoop(x_bin, y_bin, carry_in, bin_size, <<>>)

ct_add(x, y, bin_size) ==
  from_bin_le(adder(to_bin_le(x, bin_size), to_bin_le(y, bin_size), FALSE, bin_size))

ct_sub(x, y, bin_size) ==
  LET y_bin == to_bin_le(y, bin_size)
      y_bin_not == Vec([i \in 1..bin_size |-> ~y_bin[i]])
  IN from_bin_le(adder(to_bin_le(x, bin_size), y_bin_not, TRUE, bin_size))

ct_lt(x, y, bin_size) == sign_bit(ct_sub(x, y, bin_size), bin_size)

ct_select(cond, x, y, bin_size) ==
  LET diff == ct_sub(x, y, bin_size)
      scaled == (IF cond THEN 1 ELSE 0) * diff
      masked_scaled == from_bin_le(to_bin_le(scaled, bin_size))
  IN ct_add(y, masked_scaled, bin_size)

\* ct::verify_bin_size: x >> bin_size of an mpz_class rounds towards minus
\* infinity, as \div does
verify_bin_size(x, bin_size) ==
  LET shifted == x \div 2 ^ bin_size
  IN shifted = 0 \/ shifted = -1

RECURSIVE bit_length(_)
bit_length(x) == IF x <= 0 THEN 0 ELSE 1 + bit_length(x \div 2)

get_bin_size(max_value) == IF max_value <= 0 THEN 3 ELSE bit_length(max_value) + 3

\* faulty variant: the sum is not reduced
field_add_unreduced(x, y, p, bin_size) == ct_add(x, y, bin_size)

field_add(x, y, p, bin_size) ==
  LET sum == ct_add(x, y, bin_size)
      needs_reduction == ~ct_lt(sum, p, bin_size)
  IN ct_select(needs_reduction, ct_sub(sum, p, bin_size), sum, bin_size)

field_sub(x, y, p, bin_size) ==
  LET diff == ct_sub(x, y, bin_size)
      is_negative == sign_bit(diff, bin_size)
  IN ct_select(is_negative, ct_add(diff, p, bin_size), diff, bin_size)

\* ------------------------------------------------------------------------
\* Matrix: a sequence of rows; a column vector is the flat sequence data_
\* ------------------------------------------------------------------------
RECURSIVE DotLoop(_, _, _, _)
DotLoop(row, v, k, sum) ==
  IF k > Len(row) \/ ~Evaluated(sum) THEN sum
  ELSE DotLoop(row, v, k + 1, FpAdd(sum, FpMul(row[k], v[k])))

\* Matrix::mat_mul with a column vector on the right
mat_mul(M, v) == Vec([i \in 1..Len(M) |-> DotLoop(M[i], v, 1, FpZero)])

\* Matrix::add / Matrix::sub on column vectors, with the constant_time flag
vec_add(a, b, constant_time) ==
  IF constant_time
  THEN Vec([i \in 1..Len(a) |-> FpReduce(field_add(a[i], b[i], P, get_bin_size(P - 1)))])
  ELSE Vec([i \in 1..Len(a) |-> FpAdd(a[i], b[i])])

vec_sub(a, b, constant_time) ==
  IF constant_time
  THEN Vec([i \in 1..Len(a) |-> FpReduce(field_sub(a[i], b[i], P, get_bin_size(P - 1)))])
  ELSE Vec([i \in 1..Len(a) |-> FpSub(a[i], b[i])])

\* Matrix::pow: element-wise power
vec_pow(a, exp) == Vec([i \in 1..Len(a) |-> FpPow(a[i], exp)])

Tail1(row) == Vec([j \in 1..(Len(row) - 1) |-> row[j + 1]])

RECURSIVE DetLoop(_, _, _, _)
DetLoop(rows_data, col, cols, det_value) ==
  IF col >= cols \/ ~Evaluated(det_value) THEN det_value
  ELSE
    LET lz_rows == SelectSeq(rows_data, LAMBDA r : r[1] = 0)
        nlz_all == SelectSeq(rows_data, LAMBDA r : r[1] # 0)
    IN IF Len(nlz_all) = 0 THEN FpZero
       ELSE
         LET pivot_row == nlz_all[1]
             nlz_rows == Tail(nlz_all)
             pivot == pivot_row[1]
             pivot_inv == FpInv(pivot)
             normalized_pivot_row ==
                 Vec([j \in 1..Len(pivot_row) |-> FpMul(pivot_row[j], pivot_inv)])
             nlz_rows_processed ==
                 Vec([k \in 1..Len(nlz_rows) |->
                    Vec([j \in 1..Len(nlz_rows[k]) |->
                       FpSub(nlz_rows[k][j],
                             FpMul(nlz_rows[k][1], normalized_pivot_row[j]))])])
             kept == SelectSeq(nlz_rows_processed \o lz_rows, LAMBDA r : Len(r) > 1)
         IN DetLoop(Vec([k \in 1..Len(kept) |-> Tail1(kept[k])]), col + 1, cols,
                    FpMul(det_value, pivot))

\* faulty variant: the matrix is judged by its leading element alone
det_leading(M) == M[1][1]

\* faulty variant: every matrix is reported singular
det_singular(M) == FpZero

\* Matrix::det of a non-empty square matrix
det(M) == IF Len(M) = 1 THEN M[1][1] ELSE DetLoop(M, 0, Len(M), FpOne)

\* ------------------------------------------------------------------------
\* SHAKE256.  The sponge itself is OpenSSL's; what the library relies on is
\* that the output is a fixed function of the absorbed bytes.  ShakeOutput
\* is such a function (a keyed mixing of the position).
\* ------------------------------------------------------------------------
RECURSIVE AbsorbHash(_, _, _, _)
AbsorbHash(data, lo, hi, h) ==
  IF hi <= lo THEN h
  ELSE IF hi = lo + 1 THEN (h * 31 + data[hi] + 1) % 32749
  ELSE LET mid == (lo + hi) \div 2
           first == AbsorbHash(data, lo, mid, h)
       IN IF ~Evaluated(first) THEN first ELSE AbsorbHash(data, mid, hi, first)

ShakeByte(h, i) ==
  ((((h + 1) * (i + 17) + 3 * i * i) % 8191) \div 5) % ByteBase

ShakeOutput(absorbed, length) ==
  LET h == AbsorbHash(absorbed, 0, Len(absorbed), 7)
  IN Vec([i \in 1..length |-> ShakeByte(h, i)])

RECURSIVE Decimal(_)
Decimal(n) == IF n < 10 THEN <<48 + n>> ELSE Append(Decimal(n \div 10), 48 + (n % 10))

\* "encrypt everything, compute anything"
CipherSeed == <<101, 110, 99, 114, 121, 112, 116, 32, 101, 118, 101, 114, 121, 116, 104, 105, 110, 103, 44, 32, 99, 111, 109, 112, 117, 116, 101, 32, 97, 110, 121, 116, 104, 105, 110, 103>>

\* "Rescue-XLIX(<p>,<m>,<capacity>,<security level>)"
HashSeed(m, capacity) ==
  <<82, 101, 115, 99, 117, 101, 45, 88, 76, 73, 88, 40>> \o Decimal(P) \o <<44>> \o Decimal(m) \o <<44>>
     \o Decimal(capacity) \o <<44>> \o Decimal(SECURITY_LEVEL_HASH_FUNCTION) \o <<41>>

\* ------------------------------------------------------------------------
\* Parameter derivation
\* ------------------------------------------------------------------------
primes == <<2, 3, 5, 7, 11, 13, 17, 19, 23, 29, 31, 37, 41, 43, 47>>

divides(a, b) == b % a = 0

RECURSIVE EuclidLoop(_, _, _, _, _)
EuclidLoop(old_r, r, old_s, s, m) ==
  IF r = 0 \/ ~Evaluated(s) THEN (IF old_s >= m THEN old_s - m ELSE old_s)
  ELSE LET q == IF bit_length(old_r) >= bit_length(r) THEN old_r \div r ELSE 0
           temp_dividend == old_r - q * r
           qs == (q * s) % WordMod
           new_s == IF old_s >= qs THEN old_s - qs
                    ELSE IF qs - old_s < m THEN m - (qs - old_s) ELSE 0
       IN EuclidLoop(r, temp_dividend, s, new_s, m)

mod_inverse_extended(a, m) == EuclidLoop(m, a, 0, 1, m)

\* faulty variant: the first prime of the list is taken without the test
get_alpha_and_inverse_first(p) == <<primes[1], mod_inverse_extended(primes[1], p - 1)>>

get_alpha_and_inverse(p) ==
  LET p_minus_one == p - 1
      cands == {k \in 1..Len(primes) : ~divides(primes[k], p_minus_one)}
      alpha == IF cands = {} THEN 0
               ELSE primes[CHOOSE k \in cands : \A k2 \in cands : k <= k2]
  IN <<alpha, mod_inverse_extended(alpha, p_minus_one)>>

uint256_shl(x, n) == IF n >= WordBits THEN 0 ELSE (x * 2 ^ n) % WordMod

RECURSIVE BinomialLoop(_, _, _, _)
BinomialLoop(n, lo, hi, result) ==
  IF hi <= lo THEN result
  ELSE IF hi = lo + 1 THEN ((result * (n - lo)) % WordMod) \div (lo + 1)
  ELSE LET mid == (lo + hi) \div 2
           first == BinomialLoop(n, lo, mid, result)
       IN IF ~Evaluated(first) THEN first ELSE BinomialLoop(n, mid, hi, first)

binomial(n, k) ==
  IF k > n THEN 0
  ELSE IF k = 0 \/ k = n THEN 1
  ELSE BinomialLoop(n, 0, IF k > n - k THEN n - k ELSE k, 1)

RECURSIVE HashRoundsLoop(_, _, _, _)
HashRoundsLoop(l1, alpha, m, rate) ==
  LET dcon(n) == ((alpha - 1) * m * (n - 1)) \div 2 + 2
      v_func(n) == m * (n - 1) + rate
      target == uint256_shl(1, SECURITY_LEVEL_HASH_FUNCTION)
      tmp == binomial(v_func(l1) + dcon(l1), v_func(l1))
      tmp_sq == tmp * tmp
      tmp_sq_larger == (tmp_sq \div WordMod # 0) \/ (tmp_sq % WordMod > target)
  IN IF l1 > 23 \/ tmp_sq_larger THEN l1
     ELSE HashRoundsLoop(l1 + 1, alpha, m, rate)

\* log2 of alpha - 1 (alpha - 1 is a power of two for the alpha of this field)
Log2AlphaMinusOne(alpha) == CHOOSE k \in 0..5 : 2 ^ k = alpha - 1

get_n_rounds(mode, alpha, m) ==
  IF mode.tag = "cipher"
  THEN LET log2_p == bit_length(P)
           l0 == CeilDiv(2 * SECURITY_LEVEL_BLOCK_CIPHER,
                         (m + 1) * (log2_p - Log2AlphaMinusOne(alpha)))
           l1 == IF alpha = 3
                 THEN CeilDiv(SECURITY_LEVEL_BLOCK_CIPHER + 2, 4 * m)
                 ELSE CeilDiv(2 * (SECURITY_LEVEL_BLOCK_CIPHER + 3), 11 * m)
       IN 2 * Max(l0, Max(l1, 5))
  ELSE LET l1 == HashRoundsLoop(1, alpha, m, m - mode.capacity)
       IN CeilDiv(3 * Max(5, l1), 2)

build_cauchy_matrix(size) ==
  Vec([i \in 1..size |-> Vec([j \in 1..size |-> FpInv(FpReduce(i + j))])])

\* The shipped tables hold 1/(i+j) mod p for the 5x5 and the 12x12 case
\* (every entry e of both tables satisfies e * (i+j) = 1 mod 2^255 - 19).
MDS_5x5 == Vec([i \in 1..5 |-> Vec([j \in 1..5 |-> FpInv(FpReduce(i + j))])])
MDS_12x12 == Vec([i \in 1..12 |-> Vec([j \in 1..12 |-> FpInv(FpReduce(i + j))])])

\* Fp of a signed small integer, as the product helpers build it
FpOfSigned(val) == IF val >= 0 THEN FpReduce(val) ELSE FpReduce(P - (-val))

RECURSIVE product(_, _, _)
product(arr, k, result) ==
  IF k > Len(arr) \/ ~Evaluated(result) THEN result
  ELSE product(arr, k + 1, FpMul(result, FpOfSigned(arr[k])))

RECURSIVE prime_product(_, _, _, _)
prime_product(arr, exclude, k, result) ==
  IF k > Len(arr) \/ ~Evaluated(result) THEN result
  ELSE prime_product(arr, exclude, k + 1,
         IF arr[k] # exclude THEN FpMul(result, FpOfSigned(exclude - arr[k]))
         ELSE result)

\* faulty variant: the identity matrix stands for the inverse
build_inverse_cauchy_matrix_identity(size) ==
  Vec([i \in 1..size |-> Vec([j \in 1..size |-> IF i = j THEN FpOne ELSE FpZero])])

build_inverse_cauchy_matrix(size) ==
  Vec([i \in 1..size |-> Vec([j \in 1..size |->
     LET neg_range == Vec([k \in 1..size |-> -i - k])
         pos_range == Vec([k \in 1..size |-> k])
         j_plus_range == Vec([k \in 1..size |-> j + k])
         neg_only == Vec([k \in 1..size |-> -k])
         a == product(neg_range, 1, FpOne)
         a_prime == prime_product(pos_range, j, 1, FpOne)
         b == product(j_plus_range, 1, FpOne)
         b_prime == prime_product(neg_only, -i, 1, FpOne)
         denom_fp == FpOfSigned(-i - j)
         denominator == FpMul(FpMul(a_prime, b_prime), denom_fp)
     IN FpMul(FpMul(a, b), FpInv(denominator))])])

\* faulty variant: the high part is weighted with 2^255 mod p = 19
wide_bytes_to_fp_19(bytes) ==
  IF Len(bytes) <= FP_BYTES THEN FpReduce(deserialize_le(bytes))
  ELSE LET low == LeValue(bytes, FP_BYTES)
           hi_len == Min(Len(bytes), FP_BYTES + FP_BYTES \div 2) - FP_BYTES
           high == LeValue(Vec([i \in 1..hi_len |-> bytes[FP_BYTES + i]]), hi_len)
       IN FpAdd(FpReduce(low), FpMul(FpReduce(high), FpReduce(19)))

wide_bytes_to_fp(bytes) ==
  IF Len(bytes) <= FP_BYTES THEN FpReduce(deserialize_le(bytes))
  ELSE LET low == LeValue(bytes, FP_BYTES)
           hi_len == Min(Len(bytes), FP_BYTES + FP_BYTES \div 2) - FP_BYTES
           high == LeValue(Vec([i \in 1..hi_len |-> bytes[FP_BYTES + i]]), hi_len)
       IN FpAdd(FpReduce(low), FpMul(FpReduce(high), FpReduce(38)))

buffer_len == (FP_BITS + ByteBits - 1) \div ByteBits + FP_BYTES \div 2

\* ------------------------------------------------------------------------
\* The Rescue permutation
\* ------------------------------------------------------------------------
\* faulty variant: the even rounds use alpha in either mode
exponent_for_even_any_mode(mode, alpha, alpha_inverse) == alpha

exponent_for_even(mode, alpha, alpha_inverse) ==
  IF mode.tag = "cipher" THEN alpha_inverse ELSE alpha

exponent_for_odd(mode, alpha, alpha_inverse) ==
  IF mode.tag = "cipher" THEN alpha ELSE alpha_inverse

\* the rounds r = lo .. hi - 1; states[r + 1] is the state before round r
RECURSIVE PermutationLoop(_, _, _, _, _, _, _)
PermutationLoop(states, lo, hi, exp_even, exp_odd, mds_mat, subkeys) ==
  IF hi <= lo THEN states
  ELSE IF hi = lo + 1
  THEN LET s == vec_pow(states[lo + 1], IF lo % 2 = 0 THEN exp_even ELSE exp_odd)
       IN Append(states, vec_add(mat_mul(mds_mat, s), subkeys[lo + 2], FALSE))
  ELSE LET mid == (lo + hi) \div 2
           first == PermutationLoop(states, lo, mid, exp_even, exp_odd, mds_mat, subkeys)
       IN IF ~Evaluated(first) THEN first
          ELSE PermutationLoop(first, mid, hi, exp_even, exp_odd, mds_mat, subkeys)

\* faulty variant: the first round key is not added to the state
rescue_permutation_unkeyed(mode, alpha, alpha_inverse, mds_mat, subkeys, state) ==
  PermutationLoop(<<state>>, 0, Len(subkeys) - 1,
                  exponent_for_even(mode, alpha, alpha_inverse),
                  exponent_for_odd(mode, alpha, alpha_inverse),
                  mds_mat, subkeys)

\* returns every intermediate state: states[1] = state + subkeys[1], ...
rescue_permutation(mode, alpha, alpha_inverse, mds_mat, subkeys, state) ==
  PermutationLoop(<<vec_add(state, subkeys[1], FALSE)>>, 0, Len(subkeys) - 1,
                  exponent_for_even(mode, alpha, alpha_inverse),
                  exponent_for_odd(mode, alpha, alpha_inverse),
                  mds_mat, subkeys)

\* the rounds r = lo .. hi - 1; states[r + 1] is the state before round r
RECURSIVE InverseLoop(_, _, _, _, _, _, _)
InverseLoop(states, lo, hi, exp_even, exp_odd, mds_mat_inverse, subkeys) ==
  IF hi <= lo THEN states
  ELSE IF hi = lo + 1
  THEN LET s == mat_mul(mds_mat_inverse,
                        vec_sub(states[lo + 1], subkeys[Len(subkeys) - lo], FALSE))
       IN Append(states, vec_pow(s, IF lo % 2 = 0 THEN exp_even ELSE exp_odd))
  ELSE LET mid == (lo + hi) \div 2
           first == InverseLoop(states, lo, mid, exp_even, exp_odd,
                                mds_mat_inverse, subkeys)
       IN IF ~Evaluated(first) THEN first
          ELSE InverseLoop(first, mid, hi, exp_even, exp_odd, mds_mat_inverse, subkeys)

\* faulty variant: the first round key is never subtracted
rescue_permutation_inverse_keyless(mode, alpha, alpha_inverse, mds_mat_inverse, subkeys, state) ==
  InverseLoop(<<state>>, 0, Len(subkeys) - 1,
              exponent_for_even(mode, alpha, alpha_inverse),
              exponent_for_odd(mode, alpha, alpha_inverse),
              mds_mat_inverse, subkeys)

rescue_permutation_inverse(mode, alpha, alpha_inverse, mds_mat_inverse, subkeys, state) ==
  LET looped == InverseLoop(<<state>>, 0, Len(subkeys) - 1,
                            exponent_for_even(mode, alpha, alpha_inverse),
                            exponent_for_odd(mode, alpha, alpha_inverse),
                            mds_mat_inverse, subkeys)
      withLast == Append(looped, vec_sub(looped[Len(looped)], subkeys[1], FALSE))
  IN Tail(withLast)

\* ------------------------------------------------------------------------
\* RescueDesc
\* ------------------------------------------------------------------------
CipherMode(key) == [tag |-> "cipher", key |-> key]
HashMode(m, capacity) == [tag |-> "hash", m |-> m, capacity |-> capacity]

\* the round constants r = lo .. hi - 1, each from the one before it
RECURSIVE AffineOrbit(_, _, _, _, _)
AffineOrbit(round_constants, lo, hi, mat, affine) ==
  IF hi <= lo THEN round_constants
  ELSE IF hi = lo + 1
  THEN Append(round_constants,
              vec_add(mat_mul(mat, round_constants[lo]), affine, FALSE))
  ELSE LET mid == (lo + hi) \div 2
           first == AffineOrbit(round_constants, lo, mid, mat, affine)
       IN IF ~Evaluated(first) THEN first
          ELSE AffineOrbit(first, mid, hi, mat, affine)

\* faulty variant: every round constant, the first one too, is sampled
\* directly and no zero vector is prepended
sample_constants_unprepended(mode, m, n_rounds, resampled) ==
  LET seed == IF mode.tag = "cipher" THEN CipherSeed ELSE HashSeed(m, mode.capacity)
      randomness == ShakeOutput(seed, (2 * n_rounds + 1) * m * buffer_len)
  IN Vec([r \in 1..(2 * n_rounds + 1) |->
        Vec([i \in 1..m |->
           wide_bytes_to_fp(Vec([b \in 1..buffer_len |->
              randomness[((r - 1) * m + (i - 1)) * buffer_len + b]]))])])

\* resampled stands for the matrix the random_bytes loop ends with; it is
\* used only when the matrix sampled from the XOF is singular
sample_constants(mode, m, n_rounds, resampled) ==
  IF mode.tag = "cipher"
  THEN LET n_elements == m * m + 2 * m
           randomness == ShakeOutput(CipherSeed, n_elements * buffer_len)
           r_field_array ==
             Vec([i \in 1..n_elements |->
                wide_bytes_to_fp(Vec([b \in 1..buffer_len |->
                                    randomness[(i - 1) * buffer_len + b]]))])
           sampled_mat ==
             Vec([i \in 1..m |-> Vec([j \in 1..m |-> r_field_array[(i - 1) * m + j]])])
           initial_round_constant == Vec([i \in 1..m |-> r_field_array[m * m + i]])
           round_constant_affine_term ==
             Vec([i \in 1..m |-> r_field_array[m * m + m + i]])
           round_constant_mat == IF det(sampled_mat) = 0 THEN resampled ELSE sampled_mat
       IN AffineOrbit(<<initial_round_constant>>, 1, 2 * n_rounds + 1,
                      round_constant_mat, round_constant_affine_term)
  ELSE LET n_elements == 2 * m * n_rounds
           randomness == ShakeOutput(HashSeed(m, mode.capacity), n_elements * buffer_len)
       IN <<Vec([i \in 1..m |-> FpZero])>> \o
          Vec([r \in 1..(2 * n_rounds) |->
             Vec([i \in 1..m |->
                wide_bytes_to_fp(Vec([b \in 1..buffer_len |->
                   randomness[((r - 1) * m + (i - 1)) * buffer_len + b]]))])])

\* faulty variant: the round constants are stored as they were sampled
compute_key_schedule_unkeyed(mode, alpha, alpha_inverse, mds_mat, constants, key) ==
  constants

compute_key_schedule(mode, alpha, alpha_inverse, mds_mat, constants, key) ==
  rescue_permutation(mode, alpha, alpha_inverse, mds_mat, constants, key)

init_common(mode, m, resampled) ==
  LET aa == get_alpha_and_inverse(P)
      alpha == aa[1]
      alpha_inverse == aa[2]
      n_rounds == get_n_rounds(mode, alpha, m)
      mds_mat == IF m = 5 THEN MDS_5x5
                 ELSE IF m = 12 THEN MDS_12x12
                 ELSE build_cauchy_matrix(m)
      mds_mat_inverse == build_inverse_cauchy_matrix(m)
      round_constants == sample_constants(mode, m, n_rounds, resampled)
      round_keys == IF mode.tag = "cipher"
                    THEN compute_key_schedule(mode, alpha, alpha_inverse, mds_mat,
                                              round_constants, mode.key)
                    ELSE round_constants
  IN [mode |-> mode, m |-> m, alpha |-> alpha, alpha_inverse |-> alpha_inverse,
      n_rounds |-> n_rounds, mds_mat |-> mds_mat,
      mds_mat_inverse |-> mds_mat_inverse, round_keys |-> round_keys]

Thrown(e) == [err |-> e, obj |-> <<>>]
Built(o) == [err |-> "none", obj |-> o]

\* RescueDesc::RescueDesc(key)
RescueDescCipher(key, resampled) ==
  IF Len(key) < 2 THEN Thrown("invalid_argument")
  ELSE Built(init_common(CipherMode(key), Len(key), resampled))

\* RescueDesc::RescueDesc(m, capacity)
RescueDescHash(m, capacity) ==
  IF m <= capacity THEN Thrown("invalid_argument")
  ELSE Built(init_common(HashMode(m, capacity), m, <<>>))

permute(desc, state) ==
  rescue_permutation(desc.mode, desc.alpha, desc.alpha_inverse, desc.mds_mat,
                     desc.round_keys, state)[2 * desc.n_rounds + 1]

permute_inverse(desc, state) ==
  rescue_permutation_inverse(desc.mode, desc.alpha, desc.alpha_inverse,
                             desc.mds_mat_inverse, desc.round_keys,
                             state)[2 * desc.n_rounds + 1]

\* ------------------------------------------------------------------------
\* RescuePrimeHash
\* ------------------------------------------------------------------------
\* RescuePrimeHash::RescuePrimeHash(): the default (7, 5, 5) sponge
RescuePrimeHashDefault ==
  LET d == RescueDescHash(RESCUE_HASH_STATE_SIZE, RESCUE_HASH_CAPACITY)
  IN Built([rate |-> RESCUE_HASH_RATE, capacity |-> RESCUE_HASH_CAPACITY,
            digest_length |-> RESCUE_HASH_DIGEST_LENGTH, desc |-> d.obj])

\* faulty variant: a digest longer than the state is accepted
RescuePrimeHashNew_any_length(rate, capacity, digest_length) ==
  LET d == RescueDescHash(rate + capacity, capacity)
  IN IF d.err # "none" THEN Thrown(d.err)
     ELSE IF rate = 0 THEN Thrown("invalid_argument")
     ELSE IF capacity = 0 THEN Thrown("invalid_argument")
     ELSE IF digest_length = 0 THEN Thrown("invalid_argument")
     ELSE Built([rate |-> rate, capacity |-> capacity,
                 digest_length |-> digest_length, desc |-> d.obj])

\* RescuePrimeHash::RescuePrimeHash(rate, capacity, digest_length): the member
\* desc_ is initialised first, the argument checks follow in the body
RescuePrimeHashNew(rate, capacity, digest_length) ==
  LET d == RescueDescHash(rate + capacity, capacity)
  IN IF d.err # "none" THEN Thrown(d.err)
     ELSE IF rate = 0 THEN Thrown("invalid_argument")
     ELSE IF capacity = 0 THEN Thrown("invalid_argument")
     ELSE IF digest_length = 0 THEN Thrown("invalid_argument")
     ELSE IF digest_length > rate + capacity THEN Thrown("invalid_argument")
     ELSE Built([rate |-> rate, capacity |-> capacity,
                 digest_length |-> digest_length, desc |-> d.obj])

RECURSIVE PadLoop(_, _)
PadLoop(padded_message, rate) ==
  IF Len(padded_message) % rate = 0 THEN padded_message
  ELSE PadLoop(Append(padded_message, FpZero), rate)

\* faulty variant: the padding is all zeros
pad_message_zeros(message, rate) == PadLoop(Append(message, FpZero), rate)

\* the padding step of digest
pad_message(message, rate) == PadLoop(Append(message, FpOne), rate)

\* the absorb loop of digest; inputs records every state handed to permute
RECURSIVE AbsorbLoop(_, _, _, _, _)
AbsorbLoop(h, padded_message, block, state, inputs) ==
  IF block >= Len(padded_message) \div h.rate \/ ~Evaluated(state)
  THEN [state |-> state, inputs |-> inputs]
  ELSE LET m == h.desc.m
           absorb_vec ==
             Vec([i \in 1..m |-> IF i <= h.rate
                                 THEN padded_message[block * h.rate + i]
                                 ELSE FpZero])
           input == vec_add(state, absorb_vec, TRUE)
       IN AbsorbLoop(h, padded_message, block + 1, permute(h.desc, input),
                     Append(inputs, input))

\* faulty variant: a message that fills its last block gets no padding
digest_traced_aligned(h, message) ==
  LET padded_message == IF Len(message) > 0 /\ Len(message) % h.rate = 0
                        THEN message ELSE pad_message(message, h.rate)
      final == AbsorbLoop(h, padded_message, 0,
                          Vec([i \in 1..h.desc.m |-> FpZero]), <<>>)
  IN [out |-> Vec([i \in 1..h.digest_length |-> final.state[i]]),
      padded |-> padded_message, inputs |-> final.inputs]

\* RescuePrimeHash::digest, with the trace of its permutation inputs
digest_traced(h, message) ==
  LET padded_message == pad_message(message, h.rate)
      final == AbsorbLoop(h, padded_message, 0,
                          Vec([i \in 1..h.desc.m |-> FpZero]), <<>>)
  IN [out |-> Vec([i \in 1..h.digest_length |-> final.state[i]]),
      padded |-> padded_message, inputs |-> final.inputs]

digest(h, message) == digest_traced(h, message).out

\* ------------------------------------------------------------------------
\* RescueCipher
\* ------------------------------------------------------------------------
Ok(v) == [err |-> "none", out |-> v]
Fail(e) == [err |-> e, out |-> <<>>]

\* faulty variant: Z is taken from the first byte of the secret
kdf_input_first_byte(shared_secret) ==
  <<FpReduce(1), FpReduce(deserialize_le_first_byte(shared_secret)),
    FpReduce(RESCUE_CIPHER_BLOCK_SIZE)>>

\* the vector counter || Z || FixedInfo that derive_key hashes
kdf_input(shared_secret) ==
  LET secret_value == deserialize_le(shared_secret)
  IN <<FpReduce(1), FpReduce(secret_value), FpReduce(RESCUE_CIPHER_BLOCK_SIZE)>>

\* RescueCipher::derive_key
derive_key(shared_secret) ==
  IF Len(shared_secret) # RESCUE_CIPHER_SECRET_SIZE THEN Fail("invalid_argument")
  ELSE LET hasher == RescuePrimeHashDefault.obj
       IN Ok(digest(hasher, kdf_input(shared_secret)))

\* the member initialiser desc_(key), key being what derive_key returned or
\* threw
RescueCipherDesc(key, resampled) ==
  IF key.err # "none" THEN Thrown(key.err)
  ELSE RescueDescCipher(key.out, resampled)

\* the constructor body, entered once desc_ is initialised
RescueCipherBody(d, shared_secret) ==
  IF d.err # "none" THEN Thrown(d.err)
  ELSE IF Len(shared_secret) # RESCUE_CIPHER_SECRET_SIZE
  THEN Thrown("invalid_argument")
  ELSE Built([desc |-> d.obj])

\* RescueCipher::RescueCipher(const std::vector<uint8_t>&)
RescueCipherNew(shared_secret, resampled) ==
  RescueCipherBody(RescueCipherDesc(derive_key(shared_secret), resampled),
                   shared_secret)

RECURSIVE CounterLoop(_, _, _, _)
CounterLoop(nonce, n_blocks, block, counter) ==
  IF block >= n_blocks THEN counter
  ELSE CounterLoop(nonce, n_blocks, block + 1,
         counter \o <<FpReduce(nonce), FpReduce(block)>>
                 \o Vec([j \in 1..(RESCUE_CIPHER_BLOCK_SIZE - 2) |-> FpZero]))

\* faulty variant: block indices count from one
generate_counter_from_one(nonce, n_blocks) ==
  SubSeq(CounterLoop(nonce, n_blocks + 1, 0, <<>>),
         RESCUE_CIPHER_BLOCK_SIZE + 1, (n_blocks + 1) * RESCUE_CIPHER_BLOCK_SIZE)

generate_counter(nonce, n_blocks) == CounterLoop(nonce, n_blocks, 0, <<>>)

\* the block loop of encrypt_raw
RECURSIVE EncryptLoop(_, _, _, _, _, _)
EncryptLoop(c, data, counter, n_blocks, block, result) ==
  IF block >= n_blocks THEN result
  ELSE LET counter_offset == block * RESCUE_CIPHER_BLOCK_SIZE
           block_counter ==
             Vec([i \in 1..RESCUE_CIPHER_BLOCK_SIZE |-> counter[counter_offset + i]])
           encrypted_counter_data == permute(c.desc, block_counter)
           block_start == block * RESCUE_CIPHER_BLOCK_SIZE
           block_end == Min(block_start + RESCUE_CIPHER_BLOCK_SIZE, Len(data))
       IN EncryptLoop(c, data, counter, n_blocks, block + 1,
            result \o Vec([k \in 1..(block_end - block_start) |->
                             FpAdd(data[block_start + k], encrypted_counter_data[k])]))

\* the block loop of decrypt_raw
RECURSIVE DecryptLoop(_, _, _, _, _, _)
DecryptLoop(c, data, counter, n_blocks, block, result) ==
  IF block >= n_blocks THEN result
  ELSE LET counter_offset == block * RESCUE_CIPHER_BLOCK_SIZE
           block_counter ==
             Vec([i \in 1..RESCUE_CIPHER_BLOCK_SIZE |-> counter[counter_offset + i]])
           encrypted_counter_data == permute(c.desc, block_counter)
           block_start == block * RESCUE_CIPHER_BLOCK_SIZE
           block_end == Min(block_start + RESCUE_CIPHER_BLOCK_SIZE, Len(data))
       IN DecryptLoop(c, data, counter, n_blocks, block + 1,
            result \o Vec([k \in 1..(block_end - block_start) |->
                             FpSub(data[block_start + k], encrypted_counter_data[k])]))

\* RescueCipher::encrypt_raw(plaintext, span<16> nonce)
encrypt_raw_span(c, plaintext, nonce) ==
  IF Len(plaintext) = 0 THEN <<>>
  ELSE LET n_blocks == (Len(plaintext) + RESCUE_CIPHER_BLOCK_SIZE - 1)
                            \div RESCUE_CIPHER_BLOCK_SIZE
           counter == generate_counter(deserialize_le(nonce), n_blocks)
       IN EncryptLoop(c, plaintext, counter, n_blocks, 0, <<>>)

\* faulty variant: the block count is rounded down, a partial block is lost
decrypt_raw_span_floor(c, ciphertext, nonce) ==
  IF Len(ciphertext) = 0 THEN <<>>
  ELSE LET n_blocks == Len(ciphertext) \div RESCUE_CIPHER_BLOCK_SIZE
           counter == generate_counter(deserialize_le(nonce), n_blocks)
       IN DecryptLoop(c, ciphertext, counter, n_blocks, 0, <<>>)

\* RescueCipher::decrypt_raw(ciphertext, span<16> nonce)
decrypt_raw_span(c, ciphertext, nonce) ==
  IF Len(ciphertext) = 0 THEN <<>>
  ELSE LET n_blocks == (Len(ciphertext) + RESCUE_CIPHER_BLOCK_SIZE - 1)
                            \div RESCUE_CIPHER_BLOCK_SIZE
           counter == generate_counter(deserialize_le(nonce), n_blocks)
       IN DecryptLoop(c, ciphertext, counter, n_blocks, 0, <<>>)

\* RescueCipher::encrypt(plaintext, span<16> nonce): serialised elements
encrypt_span(c, plaintext, nonce) ==
  LET raw_ciphertext == encrypt_raw_span(c, plaintext, nonce)
  IN Vec([i \in 1..Len(raw_ciphertext) |-> FpToBytes(raw_ciphertext[i])])

\* RescueCipher::decrypt(ciphertext, span<16> nonce): parses, then decrypts
decrypt_span(c, ciphertext, nonce) ==
  IF \E i \in 1..Len(ciphertext) : Len(ciphertext[i]) # FP_BYTES
  THEN Fail("invalid_argument")
  ELSE Ok(decrypt_raw_span(c,
            Vec([i \in 1..Len(ciphertext) |-> FpFromBytes(ciphertext[i])]), nonce))

\* the std::vector<uint8_t> nonce overloads
encrypt(c, plaintext, nonce) ==
  IF Len(nonce) # RESCUE_CIPHER_NONCE_SIZE THEN Fail("invalid_argument")
  ELSE Ok(encrypt_span(c, plaintext, nonce))

\* faulty variant: the nonce size is not checked
decrypt_unchecked(c, ciphertext, nonce) == decrypt_span(c, ciphertext, nonce)

decrypt(c, ciphertext, nonce) ==
  IF Len(nonce) # RESCUE_CIPHER_NONCE_SIZE THEN Fail("invalid_argument")
  ELSE decrypt_span(c, ciphertext, nonce)

encrypt_raw(c, plaintext, nonce) ==
  IF Len(nonce) # RESCUE_CIPHER_NONCE_SIZE THEN Fail("invalid_argument")
  ELSE Ok(encrypt_raw_span(c, plaintext, nonce))

decrypt_raw(c, ciphertext, nonce) ==
  IF Len(nonce) # RESCUE_CIPHER_NONCE_SIZE THEN Fail("invalid_argument")
  ELSE Ok(decrypt_raw_span(c, ciphertext, nonce))

\* ------------------------------------------------------------------------
\* Inputs of the cipher operations
\* ------------------------------------------------------------------------
MaxPlainLen == 6

\* n little-endian bytes of v
Bytes(v, n) == Vec([i \in 1..n |-> (v \div ByteBase ^ (i - 1)) % ByteBase])

\* shared secrets: below p, above p, congruent to the first modulo p, and
\* two of the wrong size
SecretInputs ==
  {Bytes(5, RESCUE_CIPHER_SECRET_SIZE), Bytes(P + 5, RESCUE_CIPHER_SECRET_SIZE),
   Bytes(WordMod - 1, RESCUE_CIPHER_SECRET_SIZE),
   Bytes(5, RESCUE_CIPHER_SECRET_SIZE - 1), Bytes(5, RESCUE_CIPHER_SECRET_SIZE + 1)}

\* every well-formed nonce
Nonces == {Bytes(v, RESCUE_CIPHER_NONCE_SIZE) :
             v \in 0..(ByteBase ^ RESCUE_CIPHER_NONCE_SIZE - 1)}

\* nonces of the wrong size
BadNonces == {Bytes(1, RESCUE_CIPHER_NONCE_SIZE - 1),
              Bytes(1, RESCUE_CIPHER_NONCE_SIZE + 1)}

\* the nonces of a first call: two well-formed ones and the ones of the
\* wrong size (a repeated call ranges over every nonce)
NonceInputs ==
  {Bytes(v, RESCUE_CIPHER_NONCE_SIZE) :
     v \in {3, 9}} \cup BadNonces

\* plaintexts of every length up to MaxPlainLen: all zero, and mixed
\* elements starting from p - 1
Plaintexts ==
  {Vec([i \in 1..n |-> (a * i) % P]) : n \in 0..MaxPlainLen, a \in {0, P - 1}}

\* a serialised ciphertext whose first or last element is cut short or
\* extended by one byte
Malformed(ciphertext) ==
  {Vec([k \in 1..Len(ciphertext) |->
          IF k = i THEN SubSeq(ciphertext[k], 1, Len(ciphertext[k]) - 1)
          ELSE ciphertext[k]]) : i \in {1, Len(ciphertext)} \cap 1..Len(ciphertext)}
  \cup
  {Vec([k \in 1..Len(ciphertext) |->
          IF k = i THEN Append(ciphertext[k], 0) ELSE ciphertext[k]]) :
     i \in {1, Len(ciphertext)} \cap 1..Len(ciphertext)}

\* outcomes of the random_bytes resampling loop
Resampled(m) ==
  {Vec([i \in 1..m |-> Vec([j \in 1..m |-> IF i = j THEN FpOne ELSE FpZero])]),
   build_cauchy_matrix(m)}

\* ------------------------------------------------------------------------
\* State
\* ------------------------------------------------------------------------
VARIABLES
  cipher,     \* a RescueCipher under construction or constructed
  other,      \* a second RescueCipher
  enc,        \* the last encryption call on cipher
  enc2,       \* a further encryption of the same plaintext
  dec,        \* the decryption of enc's ciphertext
  desc,       \* a RescueDesc
  perm,       \* the last permute call on desc
  inv,        \* the permute_inverse call on perm's result
  hasher,     \* a RescuePrimeHash
  dig,        \* a digest call on hasher
  dig2,       \* a digest call on hasher for a second message
  shake,      \* a Shake256 instance
  xcall,      \* the last call on shake
  pure,       \* the last call of a function of the field, matrix or parameter layer
  callers     \* the callers that share cipher, desc and hasher: the three
              \* as they were constructed, and the call of each caller

cipherVars == <<cipher, other, enc, enc2, dec>>
permVars == <<desc, perm, inv>>
hashVars == <<hasher, dig, dig2>>
xofVars == <<shake, xcall>>
mathVars == <<pure, callers>>
vars == <<cipherVars, permVars, hashVars, xofVars, mathVars>>

NoCall == [op |-> "none", input |-> <<>>, nonce |-> <<>>, err |-> "none", out |-> <<>>]
Call(op, input, nonce, result) ==
  [op |-> op, input |-> input, nonce |-> nonce, err |-> result.err, out |-> result.out]

\* a constructor call: its argument and its outcome
NoConstruction == [arg |-> <<>>, err |-> "unconstructed", obj |-> <<>>]
Construction(arg, result) == [arg |-> arg, err |-> result.err, obj |-> result.obj]

Constructed(o) == o.err = "none"
Returned(call, op) == call.op = op /\ call.err = "none"

\* Shake256::Shake256(): nothing absorbed, not finalised.  squeezes counts
\* the squeezes that have succeeded (history, not a field)
NewShake == [absorbed |-> <<>>, finalized_ |-> FALSE, squeezes |-> 0]

NoDigest == [op |-> "none", input |-> <<>>, out |-> <<>>, padded |-> <<>>, inputs |-> <<>>]
NoXofCall == [op |-> "none", arg |-> <<>>, prior |-> 0, evp_ok |-> TRUE,
              err |-> "none", out |-> <<>>]

\* a call of a pure function: its name, arguments and outcome
NoPure == [op |-> "none", args |-> <<>>, err |-> "none", out |-> <<>>]
PureCall(op, args, err, out) == [op |-> op, args |-> args, err |-> err, out |-> out]
\* a call that has its arguments and has not run yet
Pending(op, args) == PureCall(op, args, "pending", <<>>)
IsPending(op) == pure.op = op /\ pure.err = "pending"
Done(op) == pure.op = op /\ pure.err # "pending"

\* the callers of a shared instance; each is idle, running a call or returned
Callers == {1, 2}
Idle == [pc |-> "idle", op |-> "none", input |-> <<>>, nonce |-> <<>>,
         overlapped |-> FALSE, out |-> <<>>]
NoCallers == [built |-> <<>>, call |-> [t \in Callers |-> Idle]]

InitOthers ==
  /\ cipher = NoConstruction
  /\ other = NoConstruction
  /\ enc = NoCall
  /\ enc2 = NoCall
  /\ dec = NoCall
  /\ desc = NoConstruction
  /\ perm = NoCall
  /\ inv = NoCall
  /\ hasher = NoConstruction
  /\ dig = NoDigest
  /\ dig2 = NoDigest
  /\ shake = NewShake
  /\ xcall = NoXofCall
  /\ callers = NoCallers

Init == InitOthers /\ pure = NoPure

\* RescueCipher cipher(shared_secret)
NewCipher(shared_secret) ==
  /\ cipher = NoConstruction
  /\ \E resampled \in Resampled(RESCUE_CIPHER_BLOCK_SIZE) :
       cipher' = Construction(shared_secret,
                              RescueCipherNew(shared_secret, resampled))
  /\ UNCHANGED <<other, enc, enc2, dec, permVars, hashVars, xofVars, mathVars>>

\* RescueCipher other(shared_secret)
NewOther(shared_secret) ==
  /\ Constructed(cipher)
  /\ other = NoConstruction
  /\ enc = NoCall
  /\ \E resampled \in Resampled(RESCUE_CIPHER_BLOCK_SIZE) :
       other' = Construction(shared_secret,
                             RescueCipherNew(shared_secret, resampled))
  /\ UNCHANGED <<cipher, enc, enc2, dec, permVars, hashVars, xofVars, mathVars>>

\* cipher.encrypt_raw(plaintext, nonce)
EncryptRaw(plaintext, nonce) ==
  /\ Constructed(cipher)
  /\ enc = NoCall
  /\ enc' = Call("encrypt_raw", plaintext, nonce,
                 encrypt_raw(cipher.obj, plaintext, nonce))
  /\ UNCHANGED <<cipher, other, enc2, dec, permVars, hashVars, xofVars, mathVars>>

\* cipher.encrypt(plaintext, nonce)
Encrypt(plaintext, nonce) ==
  /\ Constructed(cipher)
  /\ enc = NoCall
  /\ enc' = Call("encrypt", plaintext, nonce,
                 encrypt(cipher.obj, plaintext, nonce))
  /\ UNCHANGED <<cipher, other, enc2, dec, permVars, hashVars, xofVars, mathVars>>

\* cipher.decrypt_raw(ciphertext, nonce) on the ciphertext enc returned
DecryptRaw(nonce) ==
  /\ Returned(enc, "encrypt_raw")
  /\ other = NoConstruction
  /\ enc2 = NoCall
  /\ dec = NoCall
  /\ dec' = Call("decrypt_raw", enc.out, nonce,
                 decrypt_raw(cipher.obj, enc.out, nonce))
  /\ UNCHANGED <<cipher, other, enc, enc2, permVars, hashVars, xofVars, mathVars>>

\* cipher.decrypt(ciphertext, nonce) on the ciphertext enc returned, or on
\* that ciphertext with one element of the wrong size
Decrypt(nonce) ==
  /\ Returned(enc, "encrypt")
  /\ other = NoConstruction
  /\ enc2 = NoCall
  /\ dec = NoCall
  /\ \E ciphertext \in {enc.out} \cup Malformed(enc.out) :
       dec' = Call("decrypt", ciphertext, nonce,
                   decrypt(cipher.obj, ciphertext, nonce))
  /\ UNCHANGED <<cipher, other, enc, enc2, permVars, hashVars, xofVars, mathVars>>

\* the call recorded in enc once more, under any nonce
EncryptAgain(nonce) ==
  /\ enc.op # "none"
  /\ enc.err = "none"
  /\ other = NoConstruction
  /\ enc2 = NoCall
  /\ dec = NoCall
  /\ enc2' = IF enc.op = "encrypt_raw"
             THEN Call("encrypt_raw", enc.input, nonce,
                       encrypt_raw(cipher.obj, enc.input, nonce))
             ELSE Call("encrypt", enc.input, nonce,
                       encrypt(cipher.obj, enc.input, nonce))
  /\ UNCHANGED <<cipher, other, enc, dec, permVars, hashVars, xofVars, mathVars>>

\* the call recorded in enc, made on the second cipher
EncryptOther ==
  /\ Constructed(other)
  /\ enc.op # "none"
  /\ enc2 = NoCall
  /\ enc2' = IF enc.op = "encrypt_raw"
             THEN Call("other.encrypt_raw", enc.input, enc.nonce,
                       encrypt_raw(other.obj, enc.input, enc.nonce))
             ELSE Call("other.encrypt", enc.input, enc.nonce,
                       encrypt(other.obj, enc.input, enc.nonce))
  /\ UNCHANGED <<cipher, other, enc, dec, permVars, hashVars, xofVars, mathVars>>

NextCipher ==
  \/ \E shared_secret \in SecretInputs : NewCipher(shared_secret)
  \/ \E shared_secret \in SecretInputs : NewOther(shared_secret)
  \/ \E plaintext \in Plaintexts, nonce \in NonceInputs : EncryptRaw(plaintext, nonce)
  \/ \E plaintext \in Plaintexts, nonce \in NonceInputs : Encrypt(plaintext, nonce)
  \/ \E nonce \in NonceInputs : DecryptRaw(nonce)
  \/ \E nonce \in NonceInputs : Decrypt(nonce)
  \/ \E nonce \in Nonces \cup BadNonces : EncryptAgain(nonce)
  \/ EncryptOther

SpecCipher == Init /\ [][NextCipher]_vars

\* ------------------------------------------------------------------------
\* Properties of the cipher (checked under SpecCipher)
\* ------------------------------------------------------------------------
Repeated == enc.err = "none" /\ enc2.op = enc.op /\ enc2.err = "none"
HasNonzero(plaintext) == \E i \in 1..Len(plaintext) : plaintext[i] # FpZero

\* C1: decrypting what encrypt returned, under the same nonce, gives back the
\* plaintext element for element; likewise decrypt_raw after encrypt_raw
C1_RoundTrip ==
  /\ (Returned(enc, "encrypt") /\ dec.op = "decrypt"
        /\ dec.input = enc.out /\ dec.nonce = enc.nonce)
       => (dec.err = "none" /\ dec.out = enc.input)
  /\ (Returned(enc, "encrypt_raw") /\ dec.op = "decrypt_raw"
        /\ dec.input = enc.out /\ dec.nonce = enc.nonce)
       => (dec.err = "none" /\ dec.out = enc.input)

C1_Witness ==
  /\ Returned(enc, "encrypt")
  /\ Len(enc.input) > RESCUE_CIPHER_BLOCK_SIZE
  /\ HasNonzero(enc.input)
  /\ Returned(dec, "decrypt")
  /\ dec.input = enc.out
  /\ dec.nonce = enc.nonce
  /\ dec.out = enc.input

\* the keystream block K_b = permute([Fp(N), Fp(b), 0, 0, 0]) of C2
KeystreamBlock(c, nonce, b) ==
  permute(c.desc, <<FpReduce(LeValue(nonce, RESCUE_CIPHER_NONCE_SIZE)),
                    FpReduce(b), FpZero, FpZero, FpZero>>)

FollowsKeystream(c, call) ==
  LET n == Len(call.input)
      K == Vec([b1 \in 1..CeilDiv(n, 5) |-> KeystreamBlock(c, call.nonce, b1 - 1)])
  IN /\ Len(call.out) = n
     /\ \A i \in 0..(n - 1) :
          call.out[i + 1] = (call.input[i + 1] + K[(i \div 5) + 1][(i % 5) + 1]) % P

\* C2: encrypt_raw returns |P| elements with C[i] = P[i] + K_b[i mod 5] mod p,
\* b = floor(i / 5), K_b = permute([Fp(N), Fp(b), 0, 0, 0]), N the nonce
\* read little-endian
C2_Keystream ==
  /\ Returned(enc, "encrypt_raw") => FollowsKeystream(cipher.obj, enc)
  /\ Returned(enc2, "encrypt_raw") => FollowsKeystream(cipher.obj, enc2)

C2_Witness ==
  /\ Returned(enc, "encrypt_raw")
  /\ Len(enc.input) > RESCUE_CIPHER_BLOCK_SIZE
  /\ HasNonzero(enc.input)
  /\ enc.out # enc.input

Rejected(call) == call.err = "invalid_argument" /\ call.out = <<>>

BadSecretRejected(o) ==
  (o.err # "unconstructed" /\ Len(o.arg) # RESCUE_CIPHER_SECRET_SIZE)
    => (o.err = "invalid_argument" /\ o.obj = <<>>)

BadNonceRejected(call) ==
  (call.op # "none" /\ Len(call.nonce) # RESCUE_CIPHER_NONCE_SIZE)
    => Rejected(call)

\* C8: a secret of the wrong size is rejected at construction, a nonce of the
\* wrong size by encrypt, decrypt, encrypt_raw and decrypt_raw, a serialised
\* element of the wrong size by decrypt; each with invalid_argument and
\* without a cipher object or an output
C8_MalformedSizes ==
  /\ BadSecretRejected(cipher)
  /\ BadSecretRejected(other)
  /\ BadNonceRejected(enc)
  /\ BadNonceRejected(enc2)
  /\ BadNonceRejected(dec)
  /\ (dec.op = "decrypt"
        /\ \E i \in 1..Len(dec.input) : Len(dec.input[i]) # FP_BYTES)
       => Rejected(dec)

C8_Witness ==
  /\ dec.op = "decrypt"
  /\ Len(dec.nonce) = RESCUE_CIPHER_NONCE_SIZE
  /\ \E i \in 1..Len(dec.input) : Len(dec.input[i]) # FP_BYTES
  /\ Rejected(dec)

\* ------------------------------------------------------------------------
\* The permutation on its own (SpecPerm)
\* ------------------------------------------------------------------------
MaxStateOffset == 3

\* cipher keys of 1 (rejected) to 5 elements
KeyInputs ==
  {Vec([i \in 1..n |-> (k * i) % P]) :
     n \in 1..RESCUE_CIPHER_BLOCK_SIZE, k \in {0, 1, P - 1}}

\* (m, capacity) pairs: the default sponge, small sponges, capacity 0, and
\* two that are rejected
HashShapes == {<<12, 5>>, <<3, 1>>, <<8, 1>>, <<2, 0>>, <<5, 5>>, <<1, 2>>}

\* length-m states
StateInputs(m) ==
  {Vec([i \in 1..m |-> (a * i + b) % P]) : a \in {0, 1, 37}, b \in 0..MaxStateOffset}

\* RescueDesc desc(key)
NewCipherDesc(key) ==
  /\ desc = NoConstruction
  /\ \E resampled \in Resampled(Len(key)) :
       desc' = Construction(key, RescueDescCipher(key, resampled))
  /\ UNCHANGED <<perm, inv, cipherVars, hashVars, xofVars, mathVars>>

\* RescueDesc desc(m, capacity)
NewHashDesc(m, capacity) ==
  /\ desc = NoConstruction
  /\ desc' = Construction(<<m, capacity>>, RescueDescHash(m, capacity))
  /\ UNCHANGED <<perm, inv, cipherVars, hashVars, xofVars, mathVars>>

\* desc.permute(state)
Permute(state) ==
  /\ Constructed(desc)
  /\ perm = NoCall
  /\ Len(state) = desc.obj.m
  /\ perm' = Call("permute", state, <<>>, Ok(permute(desc.obj, state)))
  /\ UNCHANGED <<desc, inv, cipherVars, hashVars, xofVars, mathVars>>

\* desc.permute_inverse(state) on the state permute returned
PermuteInverse ==
  /\ perm.op = "permute"
  /\ inv = NoCall
  /\ inv' = Call("permute_inverse", perm.out, <<>>,
                 Ok(permute_inverse(desc.obj, perm.out)))
  /\ UNCHANGED <<desc, perm, cipherVars, hashVars, xofVars, mathVars>>

NextPerm ==
  \/ \E key \in KeyInputs : NewCipherDesc(key)
  \/ \E shape \in HashShapes : NewHashDesc(shape[1], shape[2])
  \/ \E m \in 2..RESCUE_HASH_STATE_SIZE : \E state \in StateInputs(m) : Permute(state)
  \/ PermuteInverse

SpecPerm == Init /\ [][NextPerm]_vars

\* C3: under every descriptor, cipher mode or hash mode, permute_inverse
\* applied to the result of permute gives back the state
C3_PermutationRoundTrip ==
  (perm.op = "permute" /\ inv.op = "permute_inverse" /\ inv.input = perm.out)
    => inv.out = perm.input

C3_Witness ==
  /\ Constructed(desc)
  /\ desc.obj.mode.tag = "hash"
  /\ perm.op = "permute"
  /\ perm.out # perm.input
  /\ inv.op = "permute_inverse"
  /\ inv.input = perm.out
  /\ inv.out = perm.input

\* ------------------------------------------------------------------------
\* The sponge hash (SpecHash)
\* ------------------------------------------------------------------------
MaxMsgLen == 2

RateInputs == {0, 2, RESCUE_HASH_RATE}
CapacityInputs == {0, 1, RESCUE_HASH_CAPACITY}
DigestLengthInputs == {0, RESCUE_HASH_DIGEST_LENGTH, RESCUE_HASH_STATE_SIZE + 1}

\* every message over {0, 1} of up to MaxMsgLen elements, runs of ONE around
\* the default rate, and a message of large elements
Messages ==
  UNION {{Vec(f) : f \in [1..n -> {FpZero, FpOne}]} : n \in 0..MaxMsgLen}
  \cup {Vec([i \in 1..n |-> FpOne]) :
          n \in (RESCUE_HASH_RATE - 1)..(RESCUE_HASH_RATE + 1)}
  \cup {Vec([i \in 1..RESCUE_HASH_RATE |-> P - i])}

Digest(message, traced) ==
  [op |-> "digest", input |-> message, out |-> traced.out,
   padded |-> traced.padded, inputs |-> traced.inputs]

\* RescuePrimeHash hasher
NewHashDefault ==
  /\ hasher = NoConstruction
  /\ hasher' = Construction(<<RESCUE_HASH_RATE, RESCUE_HASH_CAPACITY,
                              RESCUE_HASH_DIGEST_LENGTH>>, RescuePrimeHashDefault)
  /\ UNCHANGED <<dig, dig2, cipherVars, permVars, xofVars, mathVars>>

\* RescuePrimeHash hasher(rate, capacity, digest_length)
NewHash(rate, capacity, digest_length) ==
  /\ hasher = NoConstruction
  /\ hasher' = Construction(<<rate, capacity, digest_length>>,
                            RescuePrimeHashNew(rate, capacity, digest_length))
  /\ UNCHANGED <<dig, dig2, cipherVars, permVars, xofVars, mathVars>>

\* hasher.digest(message)
DigestFirst(message) ==
  /\ Constructed(hasher)
  /\ dig = NoDigest
  /\ dig' = Digest(message, digest_traced(hasher.obj, message))
  /\ UNCHANGED <<hasher, dig2, cipherVars, permVars, xofVars, mathVars>>

\* hasher.digest(message) for a second message
DigestSecond(message) ==
  /\ dig.op = "digest"
  /\ dig2 = NoDigest
  /\ dig2' = Digest(message, digest_traced(hasher.obj, message))
  /\ UNCHANGED <<hasher, dig, cipherVars, permVars, xofVars, mathVars>>

NextHash ==
  \/ NewHashDefault
  \/ \E rate \in RateInputs, capacity \in CapacityInputs,
        digest_length \in DigestLengthInputs : NewHash(rate, capacity, digest_length)
  \/ \E message \in Messages : DigestFirst(message)
  \/ \E message \in Messages : DigestSecond(message)

SpecHash == Init /\ [][NextHash]_vars

\* chunk j (from 1) of a padded message, extended by capacity zeros
Chunk(h, padded, j) ==
  Vec([i \in 1..(h.rate + h.capacity) |->
         IF i <= h.rate THEN padded[(j - 1) * h.rate + i] ELSE 0])

AddMod(a, b) == Vec([i \in 1..Len(a) |-> (a[i] + b[i]) % P])

\* the sponge of C6 for one recorded digest call
IsSponge(h, d) ==
  LET L == Len(d.input)
      n == L \div h.rate + 1
  IN /\ Len(d.padded) = n * h.rate
     /\ \A i \in 1..Len(d.padded) :
          d.padded[i] = IF i <= L THEN d.input[i] ELSE IF i = L + 1 THEN 1 ELSE 0
     /\ Len(d.inputs) = n
     /\ d.inputs[1] = Chunk(h, d.padded, 1)
     /\ \A j \in 2..n :
          d.inputs[j] = AddMod(permute(h.desc, d.inputs[j - 1]), Chunk(h, d.padded, j))
     /\ d.out = SubSeq(permute(h.desc, d.inputs[n]), 1, h.digest_length)
     /\ \A i \in 1..Len(d.out) : d.out[i] \in 0..(P - 1)
     /\ L = 0 =>
          d.out = SubSeq(permute(h.desc,
                           Vec([k \in 1..(h.rate + h.capacity) |->
                                  IF k = 1 THEN 1 ELSE 0])),
                         1, h.digest_length)

\* C6: digest pads with one ONE and the fewest ZEROs up to a multiple of rate,
\* starts from the zero state, adds each chunk (extended by capacity zeros)
\* and permutes, floor(L / rate) + 1 times in all, and returns the first
\* digest_length elements of the final state, each below p; the empty message
\* gives the first digest_length elements of permute([ONE, 0, ..., 0])
C6_Sponge ==
  /\ dig.op = "digest" => IsSponge(hasher.obj, dig)
  /\ dig2.op = "digest" => IsSponge(hasher.obj, dig2)

C6_Witness ==
  /\ dig.op = "digest"
  /\ hasher.obj.rate = 2
  /\ Len(dig.input) = RESCUE_HASH_RATE
  /\ Len(dig.inputs) = RESCUE_HASH_RATE \div 2 + 1
  /\ dig2.op = "digest"
  /\ Len(dig2.input) = 0

\* C7: two different messages, of equal or different lengths, never have the
\* same padded block sequence nor the same sequence of permutation inputs
C7_PaddingInjective ==
  (dig.op = "digest" /\ dig2.op = "digest" /\ dig.input # dig2.input)
    => (dig.padded # dig2.padded /\ dig.inputs # dig2.inputs)

C7_Witness ==
  /\ hasher.arg = <<RESCUE_HASH_RATE, RESCUE_HASH_CAPACITY, RESCUE_HASH_DIGEST_LENGTH>>
  /\ dig.op = "digest"
  /\ dig.input = Vec([i \in 1..(RESCUE_HASH_RATE - 1) |-> FpOne])
  /\ dig2.op = "digest"
  /\ dig2.input = Vec([i \in 1..RESCUE_HASH_RATE |-> FpOne])
  /\ dig.padded # dig2.padded

\* C9: rate = 0, capacity = 0, digest_length = 0 or digest_length greater than
\* rate + capacity makes the constructor fail with invalid_argument, and no
\* hash object results
C9_InvalidConstruction ==
  (hasher.err # "unconstructed"
     /\ (hasher.arg[1] = 0 \/ hasher.arg[2] = 0 \/ hasher.arg[3] = 0
           \/ hasher.arg[3] > hasher.arg[1] + hasher.arg[2]))
    => (hasher.err = "invalid_argument" /\ ~Constructed(hasher))

C9_Witness ==
  /\ hasher.err = "invalid_argument"
  /\ hasher.arg[1] > 0
  /\ hasher.arg[2] = 0
  /\ hasher.arg[3] > 0
  /\ hasher.arg[3] <= hasher.arg[1] + hasher.arg[2]

\* ------------------------------------------------------------------------
\* The SHAKE256 instance (SpecXof)
\* ------------------------------------------------------------------------
MaxAbsorbed == 3
MaxSqueeze == 2

UpdateInputs == {<<>>, <<1>>, <<2, 3>>}

XofResult(err, out, sh) == [err |-> err, out |-> out, obj |-> sh]

\* Shake256::update(span); evp_ok is the outcome of EVP_DigestUpdate
update(sh, data, evp_ok) ==
  IF sh.finalized_ THEN XofResult("logic_error", <<>>, sh)
  ELSE IF ~evp_ok THEN XofResult("runtime_error", <<>>, sh)
  ELSE XofResult("none", <<>>, [sh EXCEPT !.absorbed = @ \o data])

\* faulty variant: the instance is not marked finalised after a squeeze
xof_reusable(sh, length, evp_ok) ==
  IF ~sh.finalized_
  THEN IF ~evp_ok THEN XofResult("runtime_error", <<>>, sh)
       ELSE XofResult("none", ShakeOutput(sh.absorbed, length), sh)
  ELSE XofResult("logic_error", <<>>, sh)

\* Shake256::xof(length); evp_ok is the outcome of EVP_DigestFinalXOF
xof(sh, length, evp_ok) ==
  IF ~sh.finalized_
  THEN IF ~evp_ok THEN XofResult("runtime_error", <<>>, sh)
       ELSE XofResult("none", ShakeOutput(sh.absorbed, length),
                      [sh EXCEPT !.finalized_ = TRUE])
  ELSE XofResult("logic_error", <<>>, sh)

\* Shake256::finalize(length)
finalize(sh, length, evp_ok) == xof(sh, length, evp_ok)

XofCall(op, arg, evp_ok, result) ==
  [op |-> op, arg |-> arg, prior |-> shake.squeezes, evp_ok |-> evp_ok,
   err |-> result.err, out |-> result.out]

Squeezed(result) ==
  [result.obj EXCEPT !.squeezes = IF result.err = "none" THEN @ + 1 ELSE @]

\* shake.update(data)
Update(data, evp_ok) ==
  /\ shake.finalized_ \/ Len(shake.absorbed) + Len(data) <= MaxAbsorbed
  /\ LET result == update(shake, data, evp_ok)
     IN /\ shake' = result.obj
        /\ xcall' = XofCall("update", data, evp_ok, result)
  /\ UNCHANGED <<cipherVars, permVars, hashVars, mathVars>>

\* shake.xof(length)
Xof(length, evp_ok) ==
  /\ LET result == xof(shake, length, evp_ok)
     IN /\ shake' = Squeezed(result)
        /\ xcall' = XofCall("xof", length, evp_ok, result)
  /\ UNCHANGED <<cipherVars, permVars, hashVars, mathVars>>

\* shake.finalize(length)
Finalize(length, evp_ok) ==
  /\ LET result == finalize(shake, length, evp_ok)
     IN /\ shake' = Squeezed(result)
        /\ xcall' = XofCall("finalize", length, evp_ok, result)
  /\ UNCHANGED <<cipherVars, permVars, hashVars, mathVars>>

NextXof ==
  \/ \E data \in UpdateInputs, evp_ok \in BOOLEAN : Update(data, evp_ok)
  \/ \E length \in 0..MaxSqueeze, evp_ok \in BOOLEAN : Xof(length, evp_ok)
  \/ \E length \in 0..MaxSqueeze, evp_ok \in BOOLEAN : Finalize(length, evp_ok)

SpecXof == Init /\ [][NextXof]_vars

\* C10: before any squeeze has succeeded, update and xof / finalize of any
\* length are accepted (when OpenSSL reports success); once a squeeze has
\* succeeded, every further update, xof and finalize fails with logic_error
\* and returns no bytes, so at most one squeeze ever succeeds
C10_OneShotSqueeze ==
  /\ (xcall.op # "none" /\ xcall.prior = 0 /\ xcall.evp_ok)
       => /\ xcall.err = "none"
          /\ xcall.op \in {"xof", "finalize"} => Len(xcall.out) = xcall.arg
  /\ (xcall.op # "none" /\ xcall.prior >= 1)
       => (xcall.err = "logic_error" /\ xcall.out = <<>>)
  /\ shake.squeezes <= 1

C10_Witness ==
  /\ xcall.op = "update"
  /\ xcall.prior = 1
  /\ xcall.evp_ok
  /\ xcall.err = "logic_error"
  /\ Len(shake.absorbed) = MaxAbsorbed

\* ---------------------------------------------------------------------------
\* uint256 / uint512 and the limb-based field layer fp:: (uint256.hpp,
\* fp_impl.hpp).  A uint256 is LIMBS limbs, least significant first, a uint512
\* twice as many.  The limb is scaled from 64 bits to LimbBits, so a word has
\* 12 bits and fp::P is 2^11 - 19 = 2029, a prime with 2^12 = 2 * P + 38 as
\* 2^256 = 2 * (2^255 - 19) + 38.  An unsigned __int128 intermediate never
\* wraps in the source (it is below 2^71 in reduce_512 and at most 2^128 - 1
\* in mul_wide and sqr_wide) and is an integer here.  Nor does the 64-bit
\* extra = carry * 38 of reduce_512, carry being at most 38: the scaled limb
\* is narrower than 38 * 38, so extra and the literal 38 are kept as values and
\* uint256{v} spreads the value v over the limbs.
LIMBS == 4
LimbBits == 3
LimbMod == 2 ^ LimbBits
U256Mod == 2 ^ (LIMBS * LimbBits)
fp_BITS == LIMBS * LimbBits - 1
fp_P_value == 2 ^ fp_BITS - 19

\* the limbs of the value v, and the value of the limbs x
RECURSIVE ToLimbs(_, _)
ToLimbs(v, n) ==
  IF n = 0 THEN <<>> ELSE <<v % LimbMod>> \o ToLimbs(v \div LimbMod, n - 1)
\* x.limb(i) = v
SetLimb(x, i, v) == SubSeq(x, 1, i) \o <<v>> \o SubSeq(x, i + 2, Len(x))
RECURSIVE LimbsValue(_)
LimbsValue(x) ==
  IF x = <<>> THEN 0 ELSE x[1] + LimbMod * LimbsValue(Tail(x))

uint256_of(v) == ToLimbs(v % U256Mod, LIMBS)
fp_P == uint256_of(fp_P_value)
uint256_is_zero(x) == \A i \in 1..LIMBS : x[i] = 0

\* uint256::add_with_carry(a, b): {result, carry_out}
RECURSIVE AddWithCarryLoop(_, _, _, _, _)
AddWithCarryLoop(a, b, i, carry, result) ==
  IF i >= LIMBS \/ ~Evaluated(<<carry, result>>)
  THEN [first |-> result, second |-> carry # 0]
  ELSE LET sum == (a[i + 1] + carry) % LimbMod
           carry1 == IF sum < a[i + 1] THEN 1 ELSE 0
           sum2 == (sum + b[i + 1]) % LimbMod
       IN AddWithCarryLoop(a, b, i + 1,
                           carry1 + (IF sum2 < sum THEN 1 ELSE 0),
                           Append(result, sum2))
add_with_carry(a, b) == AddWithCarryLoop(a, b, 0, 0, <<>>)

\* uint256::sub_with_borrow(a, b): {result, borrow_out}
RECURSIVE SubWithBorrowLoop(_, _, _, _, _)
SubWithBorrowLoop(a, b, i, borrow, result) ==
  IF i >= LIMBS \/ ~Evaluated(<<borrow, result>>)
  THEN [first |-> result, second |-> borrow # 0]
  ELSE LET diff == (a[i + 1] - borrow) % LimbMod
           borrow1 == IF diff > a[i + 1] THEN 1 ELSE 0
           diff2 == (diff - b[i + 1]) % LimbMod
       IN SubWithBorrowLoop(a, b, i + 1,
                            borrow1 + (IF diff2 > diff THEN 1 ELSE 0),
                            Append(result, diff2))
sub_with_borrow(a, b) == SubWithBorrowLoop(a, b, 0, 0, <<>>)

\* mul_wide(a, b): schoolbook multiplication into a uint512
RECURSIVE MulWideRow(_, _, _, _, _, _)
MulWideRow(result, a, b, i, j, carry) ==
  IF j >= LIMBS \/ ~Evaluated(<<carry, result>>)
  THEN SetLimb(result, i + LIMBS, carry % LimbMod)
  ELSE LET prod == a[i + 1] * b[j + 1] + result[i + j + 1] + carry
       IN MulWideRow(SetLimb(result, i + j, prod % LimbMod),
                     a, b, i, j + 1, prod \div LimbMod)
RECURSIVE MulWideLoop(_, _, _, _)
MulWideLoop(result, a, b, i) ==
  IF i >= LIMBS \/ ~Evaluated(result) THEN result
  ELSE MulWideLoop(MulWideRow(result, a, b, i, 0, 0), a, b, i + 1)
mul_wide(a, b) == MulWideLoop(ToLimbs(0, 2 * LIMBS), a, b, 0)

\* sqr_wide(a): the cross products, doubled, plus the squares
RECURSIVE SqrCrossRow(_, _, _, _, _)
SqrCrossRow(result, a, i, j, carry) ==
  IF j >= LIMBS \/ ~Evaluated(<<carry, result>>)
  THEN SetLimb(result, i + LIMBS, carry % LimbMod)
  ELSE LET prod == a[i + 1] * a[j + 1] + result[i + j + 1] + carry
       IN SqrCrossRow(SetLimb(result, i + j, prod % LimbMod),
                      a, i, j + 1, prod \div LimbMod)
RECURSIVE SqrCrossLoop(_, _, _)
SqrCrossLoop(result, a, i) ==
  IF i >= LIMBS \/ ~Evaluated(result) THEN result
  ELSE SqrCrossLoop(SqrCrossRow(result, a, i, i + 1, 0), a, i + 1)
RECURSIVE SqrDoubleLoop(_, _, _)
SqrDoubleLoop(result, i, carry) ==
  IF i >= 2 * LIMBS \/ ~Evaluated(<<carry, result>>) THEN result
  ELSE LET doubled == result[i + 1] * 2 + carry
       IN SqrDoubleLoop(SetLimb(result, i, doubled % LimbMod),
                        i + 1, (doubled \div LimbMod) % LimbMod)
SqrAddSquare(result, i, sq, carry) ==
  LET sum == result[2 * i + 1] + (sq % LimbMod) + carry
      sum2 == result[2 * i + 2] + (sq \div LimbMod) + (sum \div LimbMod)
  IN [result |-> SetLimb(SetLimb(result, 2 * i, sum % LimbMod),
                         2 * i + 1, sum2 % LimbMod),
      carry |-> sum2 \div LimbMod]
RECURSIVE SqrSquaresLoop(_, _, _)
SqrSquaresLoop(acc, a, i) ==
  IF i >= LIMBS \/ ~Evaluated(acc) THEN acc.result
  ELSE SqrSquaresLoop(SqrAddSquare(acc.result, i, a[i + 1] * a[i + 1], acc.carry),
                      a, i + 1)
sqr_wide(a) ==
  SqrSquaresLoop([result |-> SqrDoubleLoop(SqrCrossLoop(ToLimbs(0, 2 * LIMBS), a, 0), 1, 0),
                  carry |-> 0], a, 0)

\* fp::reduce_once(x): x - p when that does not borrow, x otherwise
ReduceOnceSelect(x, sub) == IF sub.second THEN x ELSE sub.first
fp_reduce_once(x) == ReduceOnceSelect(x, sub_with_borrow(x, fp_P))

\* fp::add(a, b)
AddSelect(added, sub) ==
  IF added.second \/ ~sub.second THEN sub.first ELSE added.first
AddReduce(added) == AddSelect(added, sub_with_borrow(added.first, fp_P))
fp_add(a, b) == AddReduce(add_with_carry(a, b))

\* fp::sub(a, b)
SubSelect(sub) ==
  IF sub.second THEN add_with_carry(sub.first, fp_P).first ELSE sub.first
fp_sub(a, b) == SubSelect(sub_with_borrow(a, b))

\* fp::neg(a)
fp_neg_unmasked(a) == sub_with_borrow(fp_P, a).first
fp_neg(a) ==
  IF uint256_is_zero(a) THEN uint256_of(0) ELSE sub_with_borrow(fp_P, a).first

\* fp::reduce_512(x), the unsigned __int128 path: low + 38 * high limb by
\* limb, the carry out folded in as carry * 38, a further 38 for each carry
\* of those additions, then two conditional subtractions
RECURSIVE Reduce512Fold(_, _, _, _, _)
Reduce512Fold(low, high, i, carry, result) ==
  IF i >= LIMBS \/ ~Evaluated(<<carry, result>>)
  THEN [result |-> result, carry |-> carry]
  ELSE LET prod == high[i + 1] * 38 + low[i + 1] + carry
       IN Reduce512Fold(low, high, i + 1, prod \div LimbMod,
                        Append(result, prod % LimbMod))
Reduce512Carry2(rc2) ==
  IF rc2.second THEN uint256_of(LimbsValue(rc2.first) + 38) ELSE rc2.first
Reduce512Carry(rc) ==
  Reduce512Carry2(add_with_carry(rc.first, uint256_of(IF rc.second THEN 38 ELSE 0)))
Reduce512Extra(folded) ==
  Reduce512Carry(add_with_carry(folded.result, uint256_of(folded.carry * 38)))
fp_reduce_512_once(x) ==
  IF ~Evaluated(x) THEN x ELSE
  fp_reduce_once(Reduce512Extra(
    Reduce512Fold(SubSeq(x, 1, LIMBS), SubSeq(x, LIMBS + 1, 2 * LIMBS), 0, 0, <<>>)))
fp_reduce_512(x) ==
  IF ~Evaluated(x) THEN x ELSE
  fp_reduce_once(fp_reduce_once(Reduce512Extra(
    Reduce512Fold(SubSeq(x, 1, LIMBS), SubSeq(x, LIMBS + 1, 2 * LIMBS), 0, 0, <<>>))))

\* fp::mul(a, b), fp::sqr(a)
fp_mul(a, b) ==
  IF ~Evaluated(<<a, b>>) THEN a ELSE fp_reduce_512(mul_wide(a, b))
fp_sqr(a) == IF ~Evaluated(a) THEN a ELSE fp_reduce_512(sqr_wide(a))

\* ---------------------------------------------------------------------------
\* Calls of the fp:: layer.  A behaviour starts with one call and its
\* arguments, recorded as values, and runs it.
FpElems == {0, 1, 2, 19, 38, 1014, 1015, 2010, fp_P_value - 2, fp_P_value - 1}
FpWords ==
  FpElems \cup {fp_P_value, 2700, 2 * fp_P_value - 1, 2 * fp_P_value,
                U256Mod - 38, U256Mod - 1}
FpHighs == {0, 1, 53, 54, 107, 108, fp_P_value - 1, fp_P_value, U256Mod - 2, U256Mod - 1}
PowBases == {0, 1, 2, 3, 1015, fp_P_value - 1}
PowExps ==
  {0, 1, 5, 20, fp_P_value - 2, fp_P_value - 1, fp_P_value, 2 ^ fp_BITS - 1,
   2 ^ fp_BITS, 2 ^ fp_BITS + 1, 2 ^ fp_BITS + fp_P_value - 1, U256Mod - 1}

FpCalls ==
  {Pending("reduce_512", <<high, low>>) : high \in FpHighs, low \in FpWords}
    \cup {Pending(op, <<a, b>>) : op \in {"mul", "add", "sub"}, a \in FpElems, b \in FpElems}
    \cup {Pending(op, <<a>>) : op \in {"sqr", "neg", "fp::inv"}, a \in FpElems}
    \cup {Pending("Fp::inv", <<a>>) : a \in 0..(P - 1)}
    \cup {Pending("pow", <<base, exp>>) : base \in PowBases, exp \in PowExps}

InitFp == InitOthers /\ pure \in FpCalls

OthersUnchanged == UNCHANGED <<cipherVars, permVars, hashVars, xofVars, callers>>
Return(out) == pure' = PureCall(pure.op, pure.args, "none", out)
Outcome(result) == pure' = PureCall(pure.op, pure.args, result.err, result.out)

\* fp::reduce_512 of the uint512 with the high and low halves args[1], args[2]
CallReduce512 ==
  /\ IsPending("reduce_512")
  /\ Return(LimbsValue(fp_reduce_512(uint256_of(pure.args[2]) \o uint256_of(pure.args[1]))))
  /\ OthersUnchanged

CallMul ==
  /\ IsPending("mul")
  /\ Return(LimbsValue(fp_mul(uint256_of(pure.args[1]), uint256_of(pure.args[2]))))
  /\ OthersUnchanged

CallSqr ==
  /\ IsPending("sqr")
  /\ Return(LimbsValue(fp_sqr(uint256_of(pure.args[1]))))
  /\ OthersUnchanged

CallAdd ==
  /\ IsPending("add")
  /\ Return(LimbsValue(fp_add(uint256_of(pure.args[1]), uint256_of(pure.args[2]))))
  /\ OthersUnchanged

CallSub ==
  /\ IsPending("sub")
  /\ Return(LimbsValue(fp_sub(uint256_of(pure.args[1]), uint256_of(pure.args[2]))))
  /\ OthersUnchanged

CallNeg ==
  /\ IsPending("neg")
  /\ Return(LimbsValue(fp_neg(uint256_of(pure.args[1]))))
  /\ OthersUnchanged

\* C11: reduce_512 returns x mod p, a value of [0, p), for every uint512
\* x = high * 2^256 + low, so mul(a, b) = a * b mod p and sqr(a) = a^2 mod p
\* for a and b in [0, p)
C11_Reduce512 ==
  /\ Done("reduce_512")
       => pure.out = (pure.args[1] * U256Mod + pure.args[2]) % fp_P_value
  /\ Done("mul") => pure.out = (pure.args[1] * pure.args[2]) % fp_P_value
  /\ Done("sqr") => pure.out = (pure.args[1] * pure.args[1]) % fp_P_value

\* a reduce_512 whose fold carries out of the word, and whose sum with the
\* carry folded back in is at least 2 * p, so that both conditional
\* subtractions act
Folded(high, low) ==
  ((high * 38 + low) % U256Mod) + ((high * 38 + low) \div U256Mod) * 38
C11_Witness ==
  /\ Done("reduce_512")
  /\ pure.args[1] * 38 + pure.args[2] >= U256Mod
  /\ Folded(pure.args[1], pure.args[2]) >= 2 * fp_P_value
  /\ Folded(pure.args[1], pure.args[2]) < U256Mod
  /\ pure.out = Folded(pure.args[1], pure.args[2]) - 2 * fp_P_value

\* C12: for a and b in [0, p), add, sub and neg return the representative in
\* [0, p) of a + b, a - b and -a, with neg(0) = 0, so that (a + b) - b = a
\* and a + (-a) = 0
C12_AddSubNeg ==
  /\ Done("add")
       => /\ pure.out = (pure.args[1] + pure.args[2]) % fp_P_value
          /\ fp_sub(uint256_of(pure.out), uint256_of(pure.args[2]))
               = uint256_of(pure.args[1])
  /\ Done("sub")
       => pure.out = (pure.args[1] - pure.args[2]) % fp_P_value
  /\ Done("neg")
       => /\ pure.out = (0 - pure.args[1]) % fp_P_value
          /\ fp_add(uint256_of(pure.args[1]), uint256_of(pure.out)) = uint256_of(0)

\* an addition that wraps past p, undone by the subtraction that borrows
C12_Witness ==
  /\ Done("add")
  /\ pure.args[1] + pure.args[2] >= fp_P_value
  /\ pure.out < pure.args[2]

\* ---------------------------------------------------------------------------
\* Inversion and exponentiation

\* Fp::inv() of field.cpp: domain_error for zero, else mpz_invert
Fp_inv_total(a) == IF a = 0 THEN Ok(0) ELSE Ok(FpInv(a))
Fp_inv(a) == IF a = 0 THEN Fail("domain_error") ELSE Ok(FpInv(a))

\* fp::inv(a) is a fixed sequence of fp::mul and fp::sqr of powers of a.  It
\* is computed on the exponent, at the source's own width: the power a^e is
\* the pair of a and e, mul adds the exponents and sqr doubles one.  An
\* exponent is ExpLen limbs of ExpLimbBits bits, least significant first.
ExpLimbBits == 15
ExpLen == 18
ExpBase == 2 ^ ExpLimbBits
RECURSIVE ExpOf(_, _)
ExpOf(v, n) == IF n = 0 THEN <<>> ELSE <<v % ExpBase>> \o ExpOf(v \div ExpBase, n - 1)
RECURSIVE ExpAddLoop(_, _, _, _, _)
ExpAddLoop(x, y, k, carry, result) ==
  IF k > Len(x) \/ ~Evaluated(<<carry, result>>) THEN result
  ELSE ExpAddLoop(x, y, k + 1, (x[k] + y[k] + carry) \div ExpBase,
                  Append(result, (x[k] + y[k] + carry) % ExpBase))
ExpAdd(x, y) == ExpAddLoop(x, y, 1, 0, <<>>)

Power(a, e) == [base |-> a, exp |-> e]
PowerMul(x, y) ==
  IF ~Evaluated(<<x, y>>) THEN x ELSE Power(x.base, ExpAdd(x.exp, y.exp))
PowerSqr(x) == PowerMul(x, x)
\* for (int i = 0; i < n; ++i) t = sqr(t)
RECURSIVE PowerSqrTimes(_, _)
PowerSqrTimes(t, n) ==
  IF n = 0 \/ ~Evaluated(t) THEN t
  ELSE IF n = 1 THEN PowerSqr(t)
  ELSE PowerSqrTimes(PowerSqrTimes(t, n \div 2), n - n \div 2)

InvA11(a, a2) == PowerMul(PowerSqr(PowerSqr(a2)), PowerMul(a2, a))
InvT10(a, t9, last) == PowerMul(PowerSqrTimes(t9, last), InvA11(a, PowerSqr(a)))
InvT9(a, t6, t8, last) == InvT10(a, PowerMul(PowerSqrTimes(t8, 50), t6), last)
InvT8(a, t6, t7, last) == InvT9(a, t6, PowerMul(PowerSqrTimes(t7, 100), t7), last)
InvT7(a, t6, last) == InvT8(a, t6, PowerMul(PowerSqrTimes(t6, 50), t6), last)
InvT6(a, t3, t5, last) == InvT7(a, PowerMul(PowerSqrTimes(t5, 10), t3), last)
InvT5(a, t3, t4, last) == InvT6(a, t3, PowerMul(PowerSqrTimes(t4, 20), t4), last)
InvT4(a, t3, last) == InvT5(a, t3, PowerMul(PowerSqrTimes(t3, 10), t3), last)
InvT3(a, t2, last) == InvT4(a, PowerMul(PowerSqrTimes(t2, 5), t2), last)
InvT2(a, t1, last) == InvT3(a, PowerMul(PowerSqr(t1), a), last)
InvT1(a, t0, last) == InvT2(a, PowerMul(PowerSqr(PowerSqr(t0)), t0), last)
InvChain(a, last) == InvT1(a, PowerMul(PowerSqr(a), a), last)
fp_inv(a) == InvChain(a, 5)

\* p - 2 = 2^255 - 21 as an exponent
RECURSIVE ExpOnes(_)
ExpOnes(n) == IF n = 0 THEN <<>> ELSE <<ExpBase - 1>> \o ExpOnes(n - 1)
P_MINUS_2 ==
  <<ExpBase - 21>> \o ExpOnes(255 \div ExpLimbBits - 1)
    \o ExpOf(0, ExpLen - 255 \div ExpLimbBits)

\* uint256::bit(i)
uint256_bit(x, i) == (x[i \div LimbBits + 1] \div 2 ^ (i % LimbBits)) % 2 = 1
\* fp::ct_select(cond, a, b)
fp_ct_select(cond, a, b) == IF cond THEN a ELSE b

\* fp::pow(base, exp): the Montgomery ladder over the bits fp_BITS - 1 .. 0
\* of exp (254 .. 0 in the source)
LadderStep(bit, r0r1, r0_sqr, r1_sqr) ==
  [r0 |-> fp_ct_select(bit, r0r1, r0_sqr), r1 |-> fp_ct_select(bit, r1_sqr, r0r1)]
RECURSIVE LadderLoop(_, _, _)
LadderLoop(r, exp, i) ==
  IF i < 0 \/ ~Evaluated(r) THEN r.r0
  ELSE LadderLoop(LadderStep(uint256_bit(exp, i), fp_mul(r.r0, r.r1),
                             fp_sqr(r.r0), fp_sqr(r.r1)),
                  exp, i - 1)
fp_pow(base, exp) ==
  LadderLoop([r0 |-> uint256_of(1), r1 |-> base], exp, fp_BITS - 1)

\* base^e mod m by squaring
RECURSIVE PowerMod(_, _, _)
PowerModStep(h, b, e, m) ==
  IF e % 2 = 0 THEN (h * h) % m ELSE (((h * h) % m) * b) % m
PowerMod(b, e, m) ==
  IF e = 0 THEN 1 % m ELSE PowerModStep(PowerMod(b, e \div 2, m), b, e, m)

\* Fp::inv() on the field element args[1]
CallInv ==
  /\ IsPending("Fp::inv")
  /\ Outcome(Fp_inv(pure.args[1]))
  /\ OthersUnchanged

\* fp::inv on the element args[1], as the power args[1]^1
CallFpInv ==
  /\ IsPending("fp::inv")
  /\ Return(fp_inv(Power(pure.args[1], ExpOf(1, ExpLen))))
  /\ OthersUnchanged

\* fp::pow(base, exp)
CallPow ==
  /\ IsPending("pow")
  /\ Return(LimbsValue(fp_pow(uint256_of(pure.args[1]), uint256_of(pure.args[2]))))
  /\ OthersUnchanged

NextFp ==
  \/ CallReduce512
  \/ CallMul
  \/ CallSqr
  \/ CallAdd
  \/ CallSub
  \/ CallNeg
  \/ CallInv
  \/ CallFpInv
  \/ CallPow

SpecFp == InitFp /\ [][NextFp]_vars

\* C13: inv(a) fails, with domain_error, exactly when a = 0; for a in [1, p)
\* it returns the x in [1, p) with a * x = 1 (mod p), and the addition chain
\* of fp::inv raises its argument to the power p - 2
C13_Inverse ==
  /\ Done("Fp::inv")
       => /\ pure.err = "domain_error" <=> pure.args[1] = 0
          /\ pure.err \in {"none", "domain_error"}
          /\ pure.err = "none"
               => /\ pure.out \in 1..(P - 1)
                  /\ (pure.args[1] * pure.out) % P = 1
  /\ Done("fp::inv") => pure.out = Power(pure.args[1], P_MINUS_2)

\* an inversion of a non-zero element that is not its own inverse
C13_Witness ==
  /\ Done("Fp::inv")
  /\ pure.err = "none"
  /\ pure.out # pure.args[1]
  /\ (pure.args[1] * pure.out) % P = 1

\* C14: for every base in [0, p) and every exponent e of a uint256,
\* pow(base, e) is base^e mod p, with base^0 = 1, and so pow(a, p - 1) = 1
\* for a # 0
C14_Pow ==
  Done("pow")
    => pure.out = PowerMod(pure.args[1], pure.args[2], fp_P_value)

\* a pow whose exponent has its top bit set and whose result is not the power
C14_Witness ==
  /\ Done("pow")
  /\ pure.args[2] >= 2 ^ fp_BITS
  /\ pure.out = PowerMod(pure.args[1], pure.args[2] % 2 ^ fp_BITS, fp_P_value)
  /\ pure.out # PowerMod(pure.args[1], pure.args[2], fp_P_value)

\* ---------------------------------------------------------------------------
\* Calls of Matrix::det, ct::field_add / ct::field_sub, ct::verify_bin_size
\* and Matrix::add / Matrix::sub.  A matrix passed to add or sub is its flat
\* data_.

\* the determinant by cofactor expansion along the first row
Minor(M, j) ==
  [i \in 1..(Len(M) - 1) |->
     [k \in 1..(Len(M) - 1) |-> M[i + 1][IF k < j THEN k ELSE k + 1]]]
RECURSIVE Determinant(_)
RECURSIVE CofactorSum(_, _)
CofactorSum(M, j) ==
  IF j > Len(M) THEN 0
  ELSE ((IF j % 2 = 1 THEN M[1][j] ELSE P - M[1][j]) * Determinant(Minor(M, j))
        + CofactorSum(M, j + 1)) % P
Determinant(M) == IF Len(M) = 1 THEN M[1][1] % P ELSE CofactorSum(M, 1)

DetElems == {0, 1, 2, 3, 4, P - 1}
Bits == {0, 1}
Matrices2 == {<<<<a, b>>, <<c, d>>>> : a \in DetElems, b \in DetElems,
                                       c \in DetElems, d \in DetElems}
Matrices3 ==
  {<<<<a, b, c>>, <<d, e, f>>, <<g, h, k>>>> :
     a \in Bits, b \in Bits, c \in Bits, d \in Bits, e \in Bits, f \in Bits,
     g \in Bits, h \in Bits, k \in Bits}
CtElems == {0, 1, 54, 55, P - 1}
Vectors2 == {<<a, b>> : a \in CtElems, b \in CtElems}

\* values and widths passed to verify_bin_size
MaxVerified == 300
MaxVerifiedBits == 9

MatrixCalls ==
  {Pending("det", <<M>>) : M \in {<<<<a>>>> : a \in DetElems} \cup Matrices2 \cup Matrices3}
    \cup {Pending(op, <<x, y>>) : op \in {"field_add", "field_sub"},
                                  x \in 0..(P - 1), y \in 0..(P - 1)}
    \cup {Pending(op, <<a, b, constant_time>>) :
            op \in {"Matrix::add", "Matrix::sub"}, a \in Vectors2, b \in Vectors2,
            constant_time \in BOOLEAN}
    \cup {Pending("verify_bin_size", <<x, bin_size>>) :
            x \in (-MaxVerified)..MaxVerified, bin_size \in 1..MaxVerifiedBits}

InitMatrix == InitOthers /\ pure \in MatrixCalls

CallDet ==
  /\ IsPending("det")
  /\ Return(det(pure.args[1]))
  /\ OthersUnchanged

CallFieldAdd ==
  /\ IsPending("field_add")
  /\ Return(field_add(pure.args[1], pure.args[2], P, get_bin_size(P - 1)))
  /\ OthersUnchanged

CallFieldSub ==
  /\ IsPending("field_sub")
  /\ Return(field_sub(pure.args[1], pure.args[2], P, get_bin_size(P - 1)))
  /\ OthersUnchanged

CallMatrixAdd ==
  /\ IsPending("Matrix::add")
  /\ Return(vec_add(pure.args[1], pure.args[2], pure.args[3]))
  /\ OthersUnchanged

CallMatrixSub ==
  /\ IsPending("Matrix::sub")
  /\ Return(vec_sub(pure.args[1], pure.args[2], pure.args[3]))
  /\ OthersUnchanged

CallVerifyBinSize ==
  /\ IsPending("verify_bin_size")
  /\ Return(verify_bin_size(pure.args[1], pure.args[2]))
  /\ OthersUnchanged

NextMatrix ==
  \/ CallDet
  \/ CallFieldAdd
  \/ CallFieldSub
  \/ CallMatrixAdd
  \/ CallMatrixSub
  \/ CallVerifyBinSize

SpecMatrix == InitMatrix /\ [][NextMatrix]_vars

\* C15: det(M) is the determinant of M for every non-empty square matrix M,
\* whichever rows have a zero leading element during the elimination
C15_Det == Done("det") => pure.out = Determinant(pure.args[1])

\* a det whose first row has a zero leading element and moves behind the
\* pivot row: the result is the determinant with the opposite sign
C15_Witness ==
  /\ Done("det")
  /\ pure.args[1][1][1] = 0
  /\ Determinant(pure.args[1]) # 0
  /\ pure.out = FpNeg(Determinant(pure.args[1]))
  /\ pure.out # Determinant(pure.args[1])

\* C16: at bin_size = bit_length(p - 1) + 3, field_add(x, y, p) is
\* (x + y) mod p and field_sub(x, y, p) is (x - y) mod p for x, y in [0, p),
\* so Matrix add and sub return the same matrix with constant_time true or
\* false
C16_ConstantTime ==
  /\ Done("field_add") => pure.out = (pure.args[1] + pure.args[2]) % P
  /\ Done("field_sub") => pure.out = (pure.args[1] - pure.args[2]) % P
  /\ Done("Matrix::add")
       => pure.out = [i \in 1..Len(pure.args[1]) |->
                        (pure.args[1][i] + pure.args[2][i]) % P]
  /\ Done("Matrix::sub")
       => pure.out = [i \in 1..Len(pure.args[1]) |->
                        (pure.args[1][i] - pure.args[2][i]) % P]

\* a constant-time matrix addition in which an element wraps past p
C16_Witness ==
  /\ Done("Matrix::add")
  /\ pure.args[3]
  /\ pure.args[1][1] + pure.args[2][1] >= P
  /\ pure.out[1] = pure.args[1][1] + pure.args[2][1] - P

\* ------------------------------------------------------------------------
\* The round recurrences of the permutation, written out over the integers
\* ------------------------------------------------------------------------
RECURSIVE RowTimes(_, _, _)
RowTimes(row, v, k) ==
  IF k = 0 THEN 0 ELSE row[k] * v[k] + RowTimes(row, v, k - 1)

MatTimes(M, v) == Vec([i \in 1..Len(M) |-> RowTimes(M[i], v, Len(v)) % P])

VecPlus(a, b) == Vec([i \in 1..Len(a) |-> (a[i] + b[i]) % P])

VecMinus(a, b) == Vec([i \in 1..Len(a) |-> (a[i] - b[i]) % P])

VecPower(a, e) == Vec([i \in 1..Len(a) |-> PowerMod(a[i], e, P)])

\* K_j of a descriptor
RoundKey(d, j) == d.round_keys[j + 1]

\* one round of the forward recurrence: s_{r+1} from s_r
ForwardStep(prev, d, r, even, odd) ==
  VecPlus(MatTimes(d.mds_mat, VecPower(prev, IF r % 2 = 0 THEN even ELSE odd)),
          RoundKey(d, r + 1))

\* s_hi from s_lo, the even rounds raising to even and the odd rounds to odd
RECURSIVE ForwardRounds(_, _, _, _, _, _)
ForwardRounds(s, d, lo, hi, even, odd) ==
  IF hi <= lo THEN s
  ELSE IF hi = lo + 1 THEN ForwardStep(s, d, lo, even, odd)
  ELSE LET mid == (lo + hi) \div 2
           first == ForwardRounds(s, d, lo, mid, even, odd)
       IN IF ~Evaluated(first) THEN first
          ELSE ForwardRounds(first, d, mid, hi, even, odd)

\* s_r of the forward recurrence
ForwardState(d, state, r, even, odd) ==
  ForwardRounds(VecPlus(state, RoundKey(d, 0)), d, 0, r, even, odd)

\* one round of the inverse recurrence: u_{r+1} from u_r
InverseStep(prev, d, r, even, odd) ==
  VecPower(MatTimes(d.mds_mat_inverse,
                    VecMinus(prev, RoundKey(d, 2 * d.n_rounds - r))),
           IF r % 2 = 0 THEN even ELSE odd)

\* u_hi from u_lo
RECURSIVE InverseRounds(_, _, _, _, _, _)
InverseRounds(u, d, lo, hi, even, odd) ==
  IF hi <= lo THEN u
  ELSE IF hi = lo + 1 THEN InverseStep(u, d, lo, even, odd)
  ELSE LET mid == (lo + hi) \div 2
           first == InverseRounds(u, d, lo, mid, even, odd)
       IN IF ~Evaluated(first) THEN first
          ELSE InverseRounds(first, d, mid, hi, even, odd)

\* u_r of the inverse recurrence
InverseState(d, state, r, even, odd) == InverseRounds(state, d, 0, r, even, odd)

InverseFinal(d, state, even, odd) ==
  VecMinus(InverseState(d, state, 2 * d.n_rounds, even, odd), RoundKey(d, 0))

IsCipher(d) == d.mode.tag = "cipher"

\* C17 (as the code computes it): permute_inverse starts from u_0 = state,
\* computes u_{r+1} = (M^-1 * (u_r - K_{2N-r}))^{e'} for r = 0 .. 2N-1 with
\* e' = alpha^-1 on even r and alpha on odd r in cipher mode, e' = alpha on
\* even r and alpha^-1 on odd r in hash mode, and returns u_{2N} - K_0
C17_InverseSchedule ==
  inv.op = "permute_inverse" =>
    inv.out = InverseFinal(desc.obj, inv.input,
                           IF IsCipher(desc.obj) THEN desc.obj.alpha_inverse
                                                 ELSE desc.obj.alpha,
                           IF IsCipher(desc.obj) THEN desc.obj.alpha
                                                 ELSE desc.obj.alpha_inverse)

\* C17 (as stated): the same recurrence with e' = alpha on even r and
\* alpha^-1 on odd r in cipher mode, e' = alpha^-1 on even r and alpha on odd
\* r in hash mode
C17_InverseAsStated ==
  inv.op = "permute_inverse" =>
    inv.out = InverseFinal(desc.obj, inv.input,
                           IF IsCipher(desc.obj) THEN desc.obj.alpha
                                                 ELSE desc.obj.alpha_inverse,
                           IF IsCipher(desc.obj) THEN desc.obj.alpha_inverse
                                                 ELSE desc.obj.alpha)

C17_Witness ==
  /\ Constructed(desc)
  /\ IsCipher(desc.obj)
  /\ inv.op = "permute_inverse"
  /\ inv.out = InverseFinal(desc.obj, inv.input, desc.obj.alpha_inverse, desc.obj.alpha)
  /\ inv.out # InverseFinal(desc.obj, inv.input, desc.obj.alpha, desc.obj.alpha_inverse)

\* C18: permute computes s_0 = state + K_0 and s_{r+1} = M * s_r^e + K_{r+1}
\* for r = 0 .. 2N-1, with e = alpha^-1 on even r and alpha on odd r in
\* cipher mode, e = alpha on even r and alpha^-1 on odd r in hash mode, and
\* returns s_{2N}
C18_ForwardSchedule ==
  perm.op = "permute" =>
    perm.out = ForwardState(desc.obj, perm.input, 2 * desc.obj.n_rounds,
                            IF IsCipher(desc.obj) THEN desc.obj.alpha_inverse
                                                  ELSE desc.obj.alpha,
                            IF IsCipher(desc.obj) THEN desc.obj.alpha
                                                  ELSE desc.obj.alpha_inverse)

C18_Witness ==
  /\ Constructed(desc)
  /\ ~IsCipher(desc.obj)
  /\ perm.op = "permute"
  /\ perm.out # perm.input
  /\ perm.out = ForwardState(desc.obj, perm.input, 2 * desc.obj.n_rounds,
                             desc.obj.alpha, desc.obj.alpha_inverse)
  /\ perm.out # ForwardState(desc.obj, perm.input, 2 * desc.obj.n_rounds,
                             desc.obj.alpha_inverse, desc.obj.alpha)

\* ------------------------------------------------------------------------
\* Parameter derivation on its own (SpecParams)
\* ------------------------------------------------------------------------
\* hash shapes (m, capacity) with m > capacity >= 1
RoundShapes == {<<m, c>> : m \in {2, 3, 4, 5, 6, 8, 12}, c \in {1, 2, 5}} \cap
               {<<m, c>> : m \in 2..12, c \in 1..11}

HashRoundShapes == {sh \in RoundShapes : sh[1] > sh[2]}

\* key lengths of cipher descriptors
CipherRoundSizes == 2..RESCUE_CIPHER_BLOCK_SIZE

RoundAlphas == {3, 5}

IsPrime(n) == n >= 2 /\ \A d \in 2..(n - 1) : n % d # 0

\* the odd primes of FP_BITS bits or fewer
FieldPrimes == {q \in 3..(2 ^ FP_BITS - 1) : IsPrime(q)}

\* state sizes of hash descriptors
DescSizes == 2..RESCUE_HASH_STATE_SIZE

RECURSIVE Gcd(_, _)
Gcd(a, b) == IF b = 0 THEN a ELSE Gcd(b, a % b)

\* a and m with a >= 1, m > 1, gcd(a, m) = 1, and a * m below the word, so
\* that no product of the routine wraps
MaxInverseOf == 5
MaxModulus == 50
InverseInputs ==
  {am \in (1..MaxInverseOf) \X (2..MaxModulus) :
     Gcd(am[1], am[2]) = 1 /\ am[1] * am[2] < WordMod}

\* every chunk of buffer_len bytes
Chunks == [1..buffer_len -> 0..(ByteBase - 1)]

ParamCalls ==
  {Pending("get_n_rounds", <<HashMode(sh[1], sh[2]), alpha, sh[1]>>) :
     sh \in HashRoundShapes, alpha \in RoundAlphas}
  \cup {Pending("get_n_rounds", <<CipherMode(<<>>), alpha, m>>) :
          m \in CipherRoundSizes, alpha \in RoundAlphas}
  \cup {Pending("get_alpha_and_inverse", <<q>>) : q \in FieldPrimes}
  \cup {Pending("RescueDesc", <<m, 1>>) : m \in DescSizes}
  \cup {Pending("mod_inverse_extended", <<am[1], am[2]>>) : am \in InverseInputs}
  \cup {Pending("wide_bytes_to_fp", <<chunk>>) : chunk \in Chunks}

InitParams == InitOthers /\ pure \in ParamCalls

\* get_n_rounds(mode, alpha, m)
CallGetNRounds ==
  /\ IsPending("get_n_rounds")
  /\ Return(get_n_rounds(pure.args[1], pure.args[2], pure.args[3]))
  /\ OthersUnchanged

\* get_alpha_and_inverse(p)
CallGetAlphaAndInverse ==
  /\ IsPending("get_alpha_and_inverse")
  /\ Return(get_alpha_and_inverse(pure.args[1]))
  /\ OthersUnchanged

\* RescueDesc desc(m, capacity)
CallRescueDesc ==
  /\ IsPending("RescueDesc")
  /\ Outcome([err |-> RescueDescHash(pure.args[1], pure.args[2]).err,
              out |-> RescueDescHash(pure.args[1], pure.args[2]).obj])
  /\ OthersUnchanged

\* mod_inverse_extended(a, m)
CallModInverseExtended ==
  /\ IsPending("mod_inverse_extended")
  /\ Return(mod_inverse_extended(pure.args[1], pure.args[2]))
  /\ OthersUnchanged

\* wide_bytes_to_fp(chunk)
CallWideBytesToFp ==
  /\ IsPending("wide_bytes_to_fp")
  /\ Return(wide_bytes_to_fp(pure.args[1]))
  /\ OthersUnchanged

NextParams ==
  \/ CallGetNRounds
  \/ CallGetAlphaAndInverse
  \/ CallRescueDesc
  \/ CallModInverseExtended
  \/ CallWideBytesToFp

SpecParams == InitParams /\ [][NextParams]_vars

\* Exact natural numbers as ExpLen limbs of ExpLimbBits bits, least first
RECURSIVE BigMulSmallLoop(_, _, _, _, _)
BigMulSmallLoop(x, k, i, carry, result) ==
  IF i > Len(x) \/ ~Evaluated(<<carry, result>>) THEN result
  ELSE BigMulSmallLoop(x, k, i + 1, (x[i] * k + carry) \div ExpBase,
                       Append(result, (x[i] * k + carry) % ExpBase))

BigMulSmall(x, k) == BigMulSmallLoop(x, k, 1, 0, <<>>)

RECURSIVE BigDivSmallLoop(_, _, _, _, _)
BigDivSmallLoop(x, d, i, rem, result) ==
  IF i = 0 \/ ~Evaluated(<<rem, result>>) THEN result
  ELSE BigDivSmallLoop(x, d, i - 1, (rem * ExpBase + x[i]) % d,
                       <<(rem * ExpBase + x[i]) \div d>> \o result)

BigDivSmall(x, d) == BigDivSmallLoop(x, d, Len(x), 0, <<>>)

\* x > 2^bits
BigAbovePowerOfTwo(x, bits) ==
  LET q == bits \div ExpLimbBits
      r == bits % ExpLimbBits
  IN \/ \E i \in (q + 2)..Len(x) : x[i] # 0
     \/ x[q + 1] > 2 ^ r
     \/ x[q + 1] = 2 ^ r /\ \E i \in 1..q : x[i] # 0

\* C(n, lo) * (n - lo) ... (n - hi + 1) / ((lo + 1) ... hi) = C(n, hi)
RECURSIVE ExactBinomialLoop(_, _, _, _)
ExactBinomialLoop(n, lo, hi, result) ==
  IF hi <= lo THEN result
  ELSE IF hi = lo + 1 THEN BigDivSmall(BigMulSmall(result, n - lo), lo + 1)
  ELSE LET mid == (lo + hi) \div 2
           first == ExactBinomialLoop(n, lo, mid, result)
       IN IF ~Evaluated(first) THEN first ELSE ExactBinomialLoop(n, mid, hi, first)

\* the binomial coefficient C(n, k), exactly
ExactBinomial(n, k) ==
  ExactBinomialLoop(n, 0, IF k > n - k THEN n - k ELSE k, ExpOf(1, ExpLen))

RateOf(mode) == mode.m - mode.capacity
VOf(mode, n) == mode.m * (n - 1) + RateOf(mode)
DconOf(mode, alpha, n) == ((alpha - 1) * mode.m * (n - 1)) \div 2 + 2

\* C(v(n) + dcon(n), v(n))^2 > 2^256; the square of a natural number exceeds
\* 2^256 exactly when the number exceeds 2^128
RoundSuffices(mode, alpha, n) ==
  BigAbovePowerOfTwo(ExactBinomial(VOf(mode, n) + DconOf(mode, alpha, n), VOf(mode, n)),
                     SECURITY_LEVEL_HASH_FUNCTION \div 2)

\* the smallest n in [from, 23] that suffices, 24 if there is none
RECURSIVE SmallestRound(_, _, _)
SmallestRound(mode, alpha, from) ==
  IF from > 23 THEN 24
  ELSE IF RoundSuffices(mode, alpha, from) THEN from
  ELSE SmallestRound(mode, alpha, from + 1)

\* ceil(1.5 * max(l, 5))
RoundsFor(l) == (3 * Max(l, 5) + 1) \div 2

IsHashRounds == Done("get_n_rounds") /\ pure.args[1].tag = "hash"

\* C19: in hash mode, for every descriptor with m > capacity >= 1 for which
\* there is an n in [1, 23] with C(v(n) + dcon(n), v(n))^2 > 2^256,
\* get_n_rounds returns ceil(1.5 * max(l, 5)) for the smallest such n = l,
\* with v(n) = m(n-1) + rate, dcon(n) = floor((alpha-1)*m*(n-1)/2 + 2) and
\* the binomial computed exactly
C19_HashRounds ==
  (IsHashRounds /\ SmallestRound(pure.args[1], pure.args[2], 1) <= 23)
    => pure.out = RoundsFor(SmallestRound(pure.args[1], pure.args[2], 1))

\* the hash descriptor (3, 1) with alpha = 5: l = 17 and ceil(1.5 * 17) = 26,
\* the function returns 8
C19_Witness ==
  /\ IsHashRounds
  /\ pure.args[1] = HashMode(3, 1)
  /\ pure.args[2] = 5
  /\ SmallestRound(pure.args[1], pure.args[2], 1) = 17
  /\ pure.out = RoundsFor(1)
  /\ pure.out # RoundsFor(17)

\* the primes of the list that do not divide n
Candidates(n) == {primes[k] : k \in {j \in 1..Len(primes) : n % primes[j] # 0}}

\* (2^255 - 19) - 1 modulo a
FieldOrderResidue(a) == (PowerMod(2, 255, a) - 20) % a

\* C20: get_alpha_and_inverse(p) returns as alpha the smallest prime among
\* 2, 3, 5, ..., 47 that does not divide p - 1; for the prime of the field
\* alpha is 5, which is also the smallest prime of the list that does not
\* divide 2^255 - 20, and alpha_inverse satisfies 0 <= alpha_inverse < p - 1
\* and alpha * alpha_inverse = 1 (mod p - 1)
C20_AlphaAndInverse ==
  Done("get_alpha_and_inverse") =>
    /\ pure.out[1] \in Candidates(pure.args[1] - 1)
    /\ \A a \in Candidates(pure.args[1] - 1) : pure.out[1] <= a
    /\ pure.args[1] = P =>
         /\ pure.out[1] = 5
         /\ FieldOrderResidue(5) # 0
         /\ FieldOrderResidue(5) = (P - 1) % 5
         /\ \A k \in 1..Len(primes) : primes[k] < 5 => FieldOrderResidue(primes[k]) = 0
         /\ pure.out[2] >= 0
         /\ pure.out[2] < P - 1
         /\ (pure.out[1] * pure.out[2]) % (P - 1) = 1

C20_Witness ==
  /\ Done("get_alpha_and_inverse")
  /\ pure.args[1] = P
  /\ pure.out[1] = 5
  /\ pure.out[2] > 1
  /\ (5 * pure.out[2]) % (P - 1) = 1

\* ------------------------------------------------------------------------
\* The round keys a descriptor stores
\* ------------------------------------------------------------------------
\* the descriptor d with the vectors c in the place of its round keys
WithSubkeys(d, c) == [d EXCEPT !.round_keys = c]

\* keys is the sequence of the states of the forward recurrence run on key
\* with the subkeys c and the cipher-mode exponents
IsKeySchedule(d, keys, c, key) ==
  /\ Len(c) = 2 * d.n_rounds + 1
  /\ Len(keys) = 2 * d.n_rounds + 1
  /\ keys[1] = VecPlus(key, c[1])
  /\ \A r \in 0..(2 * d.n_rounds - 1) :
       keys[r + 2] = ForwardStep(keys[r + 1], WithSubkeys(d, c), r,
                                 d.alpha_inverse, d.alpha)

\* C21: in cipher mode round_keys are the 2N + 1 successive states of the
\* forward permutation run on the key with the sampled round constants
\* c_0 .. c_{2N} as subkeys: round_keys[0] = key + c_0 and
\* round_keys[r+1] = M * round_keys[r]^e + c_{r+1}, e = alpha^-1 on even r
\* and alpha on odd r
C21_KeySchedule ==
  (Constructed(desc) /\ IsCipher(desc.obj)) =>
    \E resampled \in Resampled(desc.obj.m) :
      IsKeySchedule(desc.obj, desc.obj.round_keys,
                    sample_constants(desc.obj.mode, desc.obj.m, desc.obj.n_rounds,
                                     resampled),
                    desc.obj.mode.key)

C21_Witness ==
  /\ Constructed(desc)
  /\ IsCipher(desc.obj)
  /\ desc.obj.m = RESCUE_CIPHER_BLOCK_SIZE
  /\ Len(desc.obj.round_keys) = 2 * desc.obj.n_rounds + 1
  /\ desc.obj.round_keys[1] # desc.obj.mode.key
  /\ desc.obj.round_keys[2] # desc.obj.round_keys[1]

\* the bytes of one squeeze of 2 * m * N elements of buffer_len bytes each
HashSqueeze(d) ==
  ShakeOutput(HashSeed(d.m, d.mode.capacity), 2 * d.m * d.n_rounds * buffer_len)

\* the k-th chunk (k from 0) of buffer_len bytes of a stream, read as a
\* little-endian integer
RECURSIVE ChunkSum(_, _, _)
ChunkSum(stream, from, n) ==
  IF n = 0 THEN 0
  ELSE ChunkSum(stream, from, n - 1) + stream[from + n] * (2 ^ ByteBits) ^ (n - 1)

ChunkInteger(stream, k) == ChunkSum(stream, k * buffer_len, buffer_len)

\* C22: in hash mode round_keys holds exactly 2N + 1 vectors of length m,
\* round_keys[0] is all zeros, and element i of round_keys[r], r = 1 .. 2N,
\* is the chunk number (r - 1) * m + i of one squeeze of 2 * m * N chunks of
\* buffer_len bytes (48 in the source), reduced into the field
C22_HashRoundKeys ==
  (Constructed(desc) /\ ~IsCipher(desc.obj)) =>
    /\ Len(desc.obj.round_keys) = 2 * desc.obj.n_rounds + 1
    /\ \A r \in 1..Len(desc.obj.round_keys) : Len(desc.obj.round_keys[r]) = desc.obj.m
    /\ \A i \in 1..desc.obj.m : desc.obj.round_keys[1][i] = 0
    /\ Len(HashSqueeze(desc.obj)) = 2 * desc.obj.m * desc.obj.n_rounds * buffer_len
    /\ \A r \in 1..(2 * desc.obj.n_rounds) : \A i \in 1..desc.obj.m :
         desc.obj.round_keys[r + 1][i] =
           ChunkInteger(HashSqueeze(desc.obj), (r - 1) * desc.obj.m + (i - 1)) % P

C22_Witness ==
  /\ Constructed(desc)
  /\ ~IsCipher(desc.obj)
  /\ desc.obj.m = RESCUE_HASH_STATE_SIZE
  /\ Len(desc.obj.round_keys) = 2 * desc.obj.n_rounds + 1
  /\ \A i \in 1..desc.obj.m : desc.obj.round_keys[1][i] = 0
  /\ \E i \in 1..desc.obj.m : desc.obj.round_keys[2][i] # 0
  /\ desc.obj.round_keys[2] # desc.obj.round_keys[3]

\* ------------------------------------------------------------------------
\* The MDS matrix of a descriptor and its inverse
\* ------------------------------------------------------------------------
\* column j of a matrix
Column(M, j) == Vec([k \in 1..Len(M) |-> M[k][j]])

\* A * B is the identity matrix
IsInverseOf(A, B) ==
  \A i \in 1..Len(A) : \A j \in 1..Len(A) :
    RowTimes(A[i], Column(B, j), Len(A)) % P = (IF i = j THEN 1 ELSE 0)

\* M[i][j] * (i + j) = 1 with 1-based i, j
IsCauchy(M) ==
  \A i \in 1..Len(M) : \A j \in 1..Len(M) : (M[i][j] * (i + j)) % P = 1

\* C23: for every state size m the MDS matrix of the descriptor is the m x m
\* matrix of the 1 / (i + j), the matrix of the closed-form inverse routine
\* satisfies M * M_inverse = I, and the determinant of M is not zero
C23_MdsInverse ==
  (Done("RescueDesc") /\ pure.err = "none") =>
    /\ Len(pure.out.mds_mat) = pure.args[1]
    /\ Len(pure.out.mds_mat_inverse) = pure.args[1]
    /\ IsCauchy(pure.out.mds_mat)
    /\ IsInverseOf(pure.out.mds_mat, pure.out.mds_mat_inverse)
    /\ det(pure.out.mds_mat) # 0
    /\ pure.args[1] <= 4 => Determinant(pure.out.mds_mat) # 0

C23_Witness ==
  /\ Done("RescueDesc")
  /\ pure.err = "none"
  /\ pure.args[1] = 7
  /\ pure.out.mds_mat # pure.out.mds_mat_inverse
  /\ IsInverseOf(pure.out.mds_mat, pure.out.mds_mat_inverse)

\* ------------------------------------------------------------------------
\* One descriptor, one sponge hash and one cipher shared by concurrent
\* callers (SpecShared).  A call begins, overlaps or not with the call of
\* the other caller, and returns.
\* ------------------------------------------------------------------------
SharedSecret == Bytes(5, RESCUE_CIPHER_SECRET_SIZE)

SharedNonce == Bytes(3, RESCUE_CIPHER_NONCE_SIZE)

SharedElements == <<P - 1, 1, 2>>

\* the calls a caller can make: <<op, input, nonce>>
SharedCalls ==
  {<<"permute", SharedElements, <<>>>>,
   <<"permute_inverse", SharedElements, <<>>>>,
   <<"digest", <<FpOne, FpZero>>, <<>>>>,
   <<"encrypt", SharedElements, SharedNonce>>,
   <<"encrypt_raw", SharedElements, SharedNonce>>,
   <<"encrypt_raw", SharedElements, Bytes(1, RESCUE_CIPHER_NONCE_SIZE + 1)>>,
   <<"decrypt", Vec([i \in 1..Len(SharedElements) |-> FpToBytes(SharedElements[i])]),
     SharedNonce>>,
   <<"decrypt_raw", SharedElements, SharedNonce>>}

\* a cipher, a hash descriptor of 3 elements, and a sponge of rate 2 and
\* capacity 1 with digests of 2 elements
InitShared ==
  /\ cipher = Construction(SharedSecret,
                           RescueCipherNew(SharedSecret,
                                           build_cauchy_matrix(RESCUE_CIPHER_BLOCK_SIZE)))
  /\ other = NoConstruction
  /\ enc = NoCall
  /\ enc2 = NoCall
  /\ dec = NoCall
  /\ desc = Construction(<<3, 1>>, RescueDescHash(3, 1))
  /\ perm = NoCall
  /\ inv = NoCall
  /\ hasher = Construction(<<2, 1, 2>>, RescuePrimeHashNew(2, 1, 2))
  /\ dig = NoDigest
  /\ dig2 = NoDigest
  /\ shake = NewShake
  /\ xcall = NoXofCall
  /\ pure = NoPure
  /\ callers = [built |-> [cipher |-> cipher, desc |-> desc, hasher |-> hasher],
                call |-> [t \in Callers |-> Idle]]

\* faulty variant: a call leaves a round count of zero behind
ReceiverAfterReset(receiver) ==
  IF "desc" \in DOMAIN receiver.obj
  THEN [receiver EXCEPT !.obj.desc.n_rounds = 0]
  ELSE [receiver EXCEPT !.obj.n_rounds = 0]

\* the receiver after a call of a const member function: no member is
\* mutable, the call cannot assign to any
ReceiverAfter(receiver) == receiver

Running(t, op) == callers.call[t].pc = "running" /\ callers.call[t].op = op

\* caller t enters a call; every call already running overlaps with it
BeginCall(t, call) ==
  /\ callers.call[t].pc = "idle"
  /\ callers' =
       [callers EXCEPT !.call =
          [u \in Callers |->
             IF u = t
             THEN [pc |-> "running", op |-> call[1], input |-> call[2],
                   nonce |-> call[3],
                   overlapped |-> \E w \in Callers : callers.call[w].pc = "running",
                   out |-> <<>>]
             ELSE IF callers.call[u].pc = "running"
             THEN [callers.call[u] EXCEPT !.overlapped = TRUE]
             ELSE callers.call[u]]]
  /\ UNCHANGED <<cipherVars, permVars, hashVars, xofVars, pure>>

Returning(t, result) ==
  callers' = [callers EXCEPT !.call[t].pc = "returned", !.call[t].out = result]

\* desc.permute(state) returns to caller t
ReturnPermute(t) ==
  /\ Running(t, "permute")
  /\ Returning(t, permute(desc.obj, callers.call[t].input))
  /\ desc' = ReceiverAfter(desc)
  /\ UNCHANGED <<perm, inv, cipherVars, hashVars, xofVars, pure>>

\* desc.permute_inverse(state) returns to caller t
ReturnPermuteInverse(t) ==
  /\ Running(t, "permute_inverse")
  /\ Returning(t, permute_inverse(desc.obj, callers.call[t].input))
  /\ desc' = ReceiverAfter(desc)
  /\ UNCHANGED <<perm, inv, cipherVars, hashVars, xofVars, pure>>

\* hasher.digest(message) returns to caller t
ReturnDigest(t) ==
  /\ Running(t, "digest")
  /\ Returning(t, digest(hasher.obj, callers.call[t].input))
  /\ hasher' = ReceiverAfter(hasher)
  /\ UNCHANGED <<dig, dig2, cipherVars, permVars, xofVars, pure>>

\* cipher.encrypt(plaintext, nonce) returns to caller t
ReturnEncrypt(t) ==
  /\ Running(t, "encrypt")
  /\ Returning(t, encrypt(cipher.obj, callers.call[t].input, callers.call[t].nonce))
  /\ cipher' = ReceiverAfter(cipher)
  /\ UNCHANGED <<other, enc, enc2, dec, permVars, hashVars, xofVars, pure>>

\* cipher.encrypt_raw(plaintext, nonce) returns to caller t
ReturnEncryptRaw(t) ==
  /\ Running(t, "encrypt_raw")
  /\ Returning(t, encrypt_raw(cipher.obj, callers.call[t].input, callers.call[t].nonce))
  /\ cipher' = ReceiverAfter(cipher)
  /\ UNCHANGED <<other, enc, enc2, dec, permVars, hashVars, xofVars, pure>>

\* cipher.decrypt(ciphertext, nonce) returns to caller t
ReturnDecrypt(t) ==
  /\ Running(t, "decrypt")
  /\ Returning(t, decrypt(cipher.obj, callers.call[t].input, callers.call[t].nonce))
  /\ cipher' = ReceiverAfter(cipher)
  /\ UNCHANGED <<other, enc, enc2, dec, permVars, hashVars, xofVars, pure>>

\* cipher.decrypt_raw(ciphertext, nonce) returns to caller t
ReturnDecryptRaw(t) ==
  /\ Running(t, "decrypt_raw")
  /\ Returning(t, decrypt_raw(cipher.obj, callers.call[t].input, callers.call[t].nonce))
  /\ cipher' = ReceiverAfter(cipher)
  /\ UNCHANGED <<other, enc, enc2, dec, permVars, hashVars, xofVars, pure>>

NextShared ==
  \/ \E t \in Callers : \E call \in SharedCalls : BeginCall(t, call)
  \/ \E t \in Callers : ReturnPermute(t)
  \/ \E t \in Callers : ReturnPermuteInverse(t)
  \/ \E t \in Callers : ReturnDigest(t)
  \/ \E t \in Callers : ReturnEncrypt(t)
  \/ \E t \in Callers : ReturnEncryptRaw(t)
  \/ \E t \in Callers : ReturnDecrypt(t)
  \/ \E t \in Callers : ReturnDecryptRaw(t)

SpecShared == InitShared /\ [][NextShared]_vars

\* what the call returns when it is the only call made on the instances as
\* they were constructed
Alone(built, op, input, nonce) ==
  IF op = "permute" THEN permute(built.desc.obj, input)
  ELSE IF op = "permute_inverse" THEN permute_inverse(built.desc.obj, input)
  ELSE IF op = "digest" THEN digest(built.hasher.obj, input)
  ELSE IF op = "encrypt" THEN encrypt(built.cipher.obj, input, nonce)
  ELSE IF op = "encrypt_raw" THEN encrypt_raw(built.cipher.obj, input, nonce)
  ELSE IF op = "decrypt" THEN decrypt(built.cipher.obj, input, nonce)
  ELSE decrypt_raw(built.cipher.obj, input, nonce)

IsShared == callers.built # <<>>

Attempted(o) == o.err # "unconstructed"

\* C25: a descriptor is produced only from a cipher key of at least 2
\* elements or from hash parameters with m > capacity >= 1; every other
\* construction is rejected with invalid_argument and produces no
\* descriptor
C25_ConstructionArguments ==
  Attempted(desc) =>
    /\ desc.err \in {"none", "invalid_argument"}
    /\ desc.err = "invalid_argument" => desc.obj = <<>>
    /\ (desc.err = "none" /\ IsCipher(desc.obj)) =>
         (Len(desc.obj.mode.key) >= 2 /\ desc.arg = desc.obj.mode.key)
    /\ (desc.err = "none" /\ ~IsCipher(desc.obj)) =>
         /\ desc.arg = <<desc.obj.mode.m, desc.obj.mode.capacity>>
         /\ desc.obj.mode.m > desc.obj.mode.capacity
         /\ desc.obj.mode.capacity >= 1

\* a hash descriptor of capacity 0 is produced
C25_Witness ==
  /\ Constructed(desc)
  /\ ~IsCipher(desc.obj)
  /\ desc.arg = <<2, 0>>
  /\ desc.obj.mode.capacity = 0
  /\ desc.obj.m = 2
  /\ Len(desc.obj.round_keys) = 2 * desc.obj.n_rounds + 1

\* C26: for every a >= 1 and every modulus m > 1 with gcd(a, m) = 1,
\* mod_inverse_extended(a, m) returns x with 0 <= x < m and
\* a * x = 1 (mod m)
C26_ModInverse ==
  Done("mod_inverse_extended") =>
    /\ pure.out >= 0
    /\ pure.out < pure.args[2]
    /\ (pure.args[1] * pure.out) % pure.args[2] = 1

\* mod_inverse_extended(5, 12) returns 0
C26_Witness ==
  /\ Done("mod_inverse_extended")
  /\ pure.args = <<5, 12>>
  /\ Gcd(5, 12) = 1
  /\ pure.out = 0

\* C27: det(M) is zero if and only if the square matrix M is singular, so
\* a test of det against zero accepts exactly the invertible matrices
C27_DetSingular ==
  Done("det") => (pure.out = FpZero <=> Determinant(pure.args[1]) = 0)

\* a singular matrix of nonzero rows whose elimination runs to the last
\* column before det returns zero
C27_Witness ==
  /\ Done("det")
  /\ Len(pure.args[1]) = 3
  /\ \A i \in 1..3 : pure.args[1][i][1] # 0
  /\ Determinant(pure.args[1]) = 0
  /\ pure.out = FpZero

\* C28: for every chunk of buffer_len bytes, wide_bytes_to_fp returns
\* x mod p in [0, p), where x is the chunk read as a little-endian integer
C28_WideReduction ==
  Done("wide_bytes_to_fp") =>
    /\ pure.out \in 0..(P - 1)
    /\ pure.out = LeValue(pure.args[1], buffer_len) % P

\* a chunk whose low word is at least 2p and whose high bytes are not zero
C28_Witness ==
  /\ Done("wide_bytes_to_fp")
  /\ LeValue(pure.args[1], FP_BYTES) >= 2 * P
  /\ LeValue(pure.args[1], buffer_len) >= WordMod
  /\ pure.out = LeValue(pure.args[1], buffer_len) % P

\* the integer a secret of RESCUE_CIPHER_SECRET_SIZE bytes stands for
SecretValue(shared_secret) == LeValue(shared_secret, RESCUE_CIPHER_SECRET_SIZE)
CipherKey(o) == o.obj.desc.mode.key
BothConstructed == Constructed(cipher) /\ Constructed(other)

C30_VerifyBinSize ==
  Done("verify_bin_size") =>
    (pure.out <=> /\ -(2 ^ (pure.args[2] - 1)) <= pure.args[1]
                  /\ pure.args[1] <= 2 ^ (pure.args[2] - 1) - 1)

\* verify_bin_size(-256, 8) returns true
C30_Witness ==
  /\ Done("verify_bin_size")
  /\ pure.args = <<-256, 8>>
  /\ pure.out = TRUE

====
